---- MODULE Spec2Model ----
(***************************************************************************)
(* F1RaceAnalyzer (race_analyzer.py): the race-control / lap-table         *)
(* scanners, the telemetry correlator and the segment ranker.              *)
(*                                                                         *)
(* Encoding of values.                                                     *)
(*   - An optional value (Python None, a pandas NaN cell, a DataFrame      *)
(*     attribute that is still None) is a sequence of length 0 or 1:       *)
(*     None = <<>>, a present value v = <<v>>.                             *)
(*   - A DataFrame is the sequence of its rows, a row a record.            *)
(*   - A message text is a sequence of tokens (words, numbers); substring  *)
(*     search is contiguous-subsequence search over tokens and case        *)
(*     folding maps each token to its upper-case form.                     *)
(*   - Speeds and positions are integers (the CSV holds integral floats).  *)
(***************************************************************************)
EXTENDS Integers, Sequences, FiniteSets, TLC

VARIABLES
    disk,              \* the race directory on disk: the CSV files' contents
    lap_data,          \* self.lap_data
    race_control,      \* self.race_control
    track_status,      \* self.track_status
    session_results,   \* self.session_results
    weather_data,      \* self.weather_data
    session_status,    \* self.session_status
    analysis_results,  \* self.analysis_results
    fastf1,            \* the (driver, lap) pairs whose channel fetch succeeded in the last call
    op,                \* the last method called on the analyzer
    arg,               \* its argument (min_change), 0 when it has none
    ret,               \* the list it returned (empty for load_race_data)
    loaded,            \* the Boolean the last load_race_data returned
    raised,            \* the exception the last call raised, "" when it returned
    files,             \* the report files written so far
    settings,          \* the module global _settings of config/settings.py
    instances          \* the number of Settings objects constructed so far

vars == <<disk, lap_data, race_control, track_status, session_results,
          weather_data, session_status, analysis_results, fastf1, op, arg, ret,
          loaded, raised, files, settings, instances>>

tables == <<lap_data, race_control, track_status, session_results,
            weather_data, session_status>>

----------------------------------------------------------------------------
(* Optional values *)

None == <<>>
Some(x) == <<x>>
IsNone(x) == x = <<>>
Val(x) == x[1]

Abs(n) == IF n < 0 THEN -n ELSE n

----------------------------------------------------------------------------
(* Sequence helpers standing for the pandas / Python builtins the code uses *)

RECURSIVE Concat(_)
Concat(ss) == IF ss = <<>> THEN <<>> ELSE Head(ss) \o Concat(Tail(ss))

Map(s, F(_)) == [i \in 1..Len(s) |-> F(s[i])]

\* Series.unique(): the distinct values in order of first appearance
RECURSIVE Unique(_)
Unique(s) ==
    IF s = <<>> THEN <<>>
    ELSE <<Head(s)>> \o SelectSeq(Unique(Tail(s)), LAMBDA x : x # Head(s))

\* the sorts work on pairs <<key, value>>
RECURSIVE InsertAscending(_, _)
InsertAscending(p, s) ==
    IF s = <<>> THEN <<p>>
    ELSE IF p[1] < Head(s)[1] THEN <<p>> \o s
    ELSE <<Head(s)>> \o InsertAscending(p, Tail(s))

RECURSIVE InsertDescending(_, _)
InsertDescending(p, s) ==
    IF s = <<>> THEN <<p>>
    ELSE IF p[1] > Head(s)[1] THEN <<p>> \o s
    ELSE <<Head(s)>> \o InsertDescending(p, Tail(s))

\* list.sort(key=...) / sort_values: ascending, equal keys keep their order
RECURSIVE SortAscending(_)
SortAscending(s) ==
    IF s = <<>> THEN <<>>
    ELSE InsertAscending(s[Len(s)], SortAscending(SubSeq(s, 1, Len(s) - 1)))

\* list.sort(key=..., reverse=True): descending, equal keys keep their order
RECURSIVE SortDescending(_)
SortDescending(s) ==
    IF s = <<>> THEN <<>>
    ELSE InsertDescending(s[Len(s)], SortDescending(SubSeq(s, 1, Len(s) - 1)))

Reverse(s) == [i \in 1..Len(s) |-> s[Len(s) + 1 - i]]

Values(pairs) == [i \in 1..Len(pairs) |-> pairs[i][2]]

----------------------------------------------------------------------------
(* analyze_position_changes *)

\* self.lap_data['Driver'].unique()
LapDrivers(ld) == Unique(Map(ld, LAMBDA r : r.Driver))

\* self.lap_data[self.lap_data['Driver'] == driver].sort_values('LapNumber')
DriverLaps(ld, driver) ==
    Values(SortAscending(Map(SelectSeq(ld, LAMBDA r : r.Driver = driver),
                             LAMBDA r : <<r.LapNumber, r>>)))

\* not pd.isna(prev_pos) and not pd.isna(curr_pos) and prev_pos != curr_pos
PositionsDiffer(prev_pos, curr_pos) ==
    /\ ~IsNone(prev_pos)
    /\ ~IsNone(curr_pos)
    /\ Val(prev_pos) # Val(curr_pos)

SignificantChange_Off(change, min_change) == Abs(change) >= min_change - 1

\* abs(change) >= min_change
SignificantChange(change, min_change) == Abs(change) >= min_change

\* the duration strings of the modelled lap tables that pd.to_timedelta
\* parses, with their total_seconds() in milliseconds
DurationMs ==
    [t \in {"0:01:30.000", "0:01:32.000", "0:01:32.001", "0:01:27.999",
            "0:00:30.000", "0:00:30.500", "0:00:30.501", "0:00:29.499"} |->
        CASE t = "0:01:30.000" -> 90000
          [] t = "0:01:32.000" -> 92000
          [] t = "0:01:32.001" -> 92001
          [] t = "0:01:27.999" -> 87999
          [] t = "0:00:30.000" -> 30000
          [] t = "0:00:30.500" -> 30500
          [] t = "0:00:30.501" -> 30501
          [] t = "0:00:29.499" -> 29499]

\* pd.to_timedelta(cell).total_seconds(): a NaN cell gives NaT, whose
\* total_seconds() is nan; a string that is no duration raises ValueError
TotalSeconds(cell) ==
    IF IsNone(cell) THEN [kind |-> "nan", ms |-> 0]
    ELSE IF Val(cell) \in DOMAIN DurationMs
         THEN [kind |-> "seconds", ms |-> DurationMs[Val(cell)]]
    ELSE [kind |-> "error", ms |-> 0]

LapTimeThreshold == 2000
SpeedChangeThreshold == 15
SectorThreshold == 500

LapTimeAnomaly_AtLeast(time_diff) == Abs(time_diff) >= LapTimeThreshold

\* if abs(time_diff) > 2.0
LapTimeAnomaly(time_diff) == Abs(time_diff) > LapTimeThreshold

\* if abs(speed_diff) > 15
SpeedChangeAnomaly(speed_diff) == Abs(speed_diff) > SpeedChangeThreshold

\* if abs(sector_diff) > 0.5
SectorAnomaly(sector_diff) == Abs(sector_diff) > SectorThreshold

\* the try block of the lap time: lap_time_change and its anomaly.  An
\* exception leaves 'N/A'; a nan difference is formatted as '+nans' and
\* is no anomaly (abs(nan) > 2.0 is False)
LapTimeComparison(prev_lap, curr_lap) ==
    LET prev_time == TotalSeconds(prev_lap.LapTime)
        curr_time == TotalSeconds(curr_lap.LapTime)
        time_diff == curr_time.ms - prev_time.ms
    IN  IF prev_time.kind = "error" \/ curr_time.kind = "error"
        THEN [lap_time_change |-> [text |-> "N/A", ms |-> 0],
              anomalies       |-> <<>>]
        ELSE IF prev_time.kind = "nan" \/ curr_time.kind = "nan"
        THEN [lap_time_change |-> [text |-> "+nans", ms |-> 0],
              anomalies       |-> <<>>]
        ELSE [lap_time_change |-> [text |-> "seconds", ms |-> time_diff],
              anomalies       |->
                  IF LapTimeAnomaly(time_diff)
                  THEN <<[kind |-> "LapTime", amount |-> time_diff]>>
                  ELSE <<>>]

speed_fields == <<"SpeedI1", "SpeedI2", "SpeedFL", "SpeedST">>
sector_fields == <<"Sector1Time", "Sector2Time", "Sector3Time">>

\* not pd.isna(prev_lap.get(field)) and not pd.isna(curr_lap.get(field))
BothPresent(prev_lap, curr_lap, field) ==
    ~IsNone(prev_lap[field]) /\ ~IsNone(curr_lap[field])

\* the sector fields that reach sector_changes: present and parsed
SectorCompared(prev_lap, curr_lap, field) ==
    /\ BothPresent(prev_lap, curr_lap, field)
    /\ TotalSeconds(prev_lap[field]).kind = "seconds"
    /\ TotalSeconds(curr_lap[field]).kind = "seconds"

compare_lap_telemetry(prev_lap, curr_lap) ==
    LET lap_time == LapTimeComparison(prev_lap, curr_lap)
        SpeedDiff(f)  == Val(curr_lap[f]) - Val(prev_lap[f])
        SectorDiff(f) == TotalSeconds(curr_lap[f]).ms
                         - TotalSeconds(prev_lap[f]).ms
        speeds  == SelectSeq(speed_fields,
                             LAMBDA f : BothPresent(prev_lap, curr_lap, f))
        sectors == SelectSeq(sector_fields,
                             LAMBDA f : SectorCompared(prev_lap, curr_lap, f))
    IN  [lap_time_change |-> lap_time.lap_time_change,
         speed_changes   |->
             [f \in {speeds[i] : i \in 1..Len(speeds)} |-> SpeedDiff(f)],
         sector_changes  |->
             [f \in {sectors[i] : i \in 1..Len(sectors)} |-> SectorDiff(f)],
         tire_changes    |->
             [compound_change  |->
                  \/ IsNone(prev_lap.Compound) \/ IsNone(curr_lap.Compound)
                  \/ prev_lap.Compound # curr_lap.Compound,
              tyre_life_change |->
                  IF BothPresent(prev_lap, curr_lap, "TyreLife")
                  THEN Some(Val(curr_lap.TyreLife) - Val(prev_lap.TyreLife))
                  ELSE None],
         anomalies       |->
             lap_time.anomalies
             \o Map(SelectSeq(speeds, LAMBDA f : SpeedChangeAnomaly(SpeedDiff(f))),
                    LAMBDA f : [kind |-> f, amount |-> SpeedDiff(f)])
             \o Map(SelectSeq(sectors, LAMBDA f : SectorAnomaly(SectorDiff(f))),
                    LAMBDA f : [kind |-> f, amount |-> SectorDiff(f)])]

\* the record appended for the rows prev_lap, curr_lap
PositionChangeRecord(driver, prev_lap, curr_lap) ==
    [driver        |-> driver,
     lap           |-> curr_lap.LapNumber,
     from_position |-> Val(prev_lap.Position),
     to_position   |-> Val(curr_lap.Position),
     change        |-> Val(prev_lap.Position) - Val(curr_lap.Position),
     telemetry_comparison |-> compare_lap_telemetry(prev_lap, curr_lap)]

\* the inner loop: for i in range(1, len(driver_laps))
DriverPositionChanges(ld, driver, min_change) ==
    LET dl == DriverLaps(ld, driver)
        Reported(i) ==
            /\ PositionsDiffer(dl[i - 1].Position, dl[i].Position)
            /\ SignificantChange(Val(dl[i - 1].Position) - Val(dl[i].Position),
                                 min_change)
        idx == SelectSeq([i \in 1..(Len(dl) - 1) |-> i + 1], Reported)
    IN  Map(idx, LAMBDA i : PositionChangeRecord(driver, dl[i - 1], dl[i]))

\* the outer loop: the records in the order they are appended
DetectedPositionChanges(ld, min_change) ==
    Concat(Map(LapDrivers(ld),
               LAMBDA d : DriverPositionChanges(ld, d, min_change)))

SortPositionChanges_Unstable(pcs) ==
    Reverse(Values(SortAscending(Map(pcs, LAMBDA x : <<Abs(x.change), x>>))))

\* position_changes.sort(key=lambda x: abs(x['change']), reverse=True)
SortPositionChanges(pcs) ==
    Values(SortDescending(Map(pcs, LAMBDA x : <<Abs(x.change), x>>)))

analyze_position_changes(ld, min_change) ==
    IF IsNone(ld) THEN <<>>
    ELSE SortPositionChanges(DetectedPositionChanges(Val(ld), min_change))

----------------------------------------------------------------------------
(* Message texts *)

\* str.upper() on the vocabulary of the modelled messages
UpperToken(t) ==
    CASE t = "collision" -> "COLLISION"
      [] t = "Collision" -> "COLLISION"
      [] t = "spin"      -> "SPIN"
      [] t = "yellow"    -> "YELLOW"
      [] t = "track"     -> "TRACK"
      [] t = "limits"    -> "LIMITS"
      [] t = "car"       -> "CAR"
      [] t = "turn"      -> "TURN"
      [] OTHER           -> t

Upper(text) == [i \in 1..Len(text) |-> UpperToken(text[i])]

\* pat occurs in text at index i
OccursAt(pat, text, i) ==
    /\ i + Len(pat) - 1 <= Len(text)
    /\ \A k \in 1..Len(pat) : text[i + k - 1] = pat[k]

\* Python's  pat in text  (case-sensitive)
Contains(pat, text) == \E i \in 1..Len(text) : OccursAt(pat, text, i)

StrContains_CaseSensitive(message, patterns) ==
    /\ ~IsNone(message)
    /\ \E j \in 1..Len(patterns) : Contains(patterns[j], Val(message))

\* Series.str.contains('A|B|...', case=False, na=False) on one cell
StrContains(message, patterns) ==
    /\ ~IsNone(message)
    /\ \E j \in 1..Len(patterns) :
          Contains(Upper(patterns[j]), Upper(Val(message)))

\* \d+
DigitTokens == {"1", "4", "44", "99"}
IsDigits(t) == t \in DigitTokens

\* int(car_number)
IntOf(t) ==
    CASE t = "1"  -> 1
      [] t = "4"  -> 4
      [] t = "44" -> 44
      [] t = "99" -> 99

FindAllCar_Distinct(text) ==
    LET Hit(i) == /\ text[i] = "CAR" /\ IsDigits(text[i + 1])
                  /\ \A j \in 1..(i - 1) :
                        ~(text[j] = "CAR" /\ text[j + 1] = text[i + 1])
        idx == SelectSeq([i \in 1..(Len(text) - 1) |-> i], Hit)
    IN  Map(idx, LAMBDA i : text[i + 1])

\* re.findall(r'CAR (\d+)', message)
FindAllCar(text) ==
    LET Hit(i) == text[i] = "CAR" /\ IsDigits(text[i + 1])
        idx == SelectSeq([i \in 1..(Len(text) - 1) |-> i], Hit)
    IN  Map(idx, LAMBDA i : text[i + 1])

----------------------------------------------------------------------------
(* _get_driver_from_car_number *)

get_driver_from_car_number(sr, car_number) ==
    IF IsNone(sr) THEN None
    ELSE LET driver_row == SelectSeq(Val(sr),
                 LAMBDA r : r.DriverNumber = IntOf(car_number))
         IN  IF driver_row # <<>> THEN Some(driver_row[1].Abbreviation)
             ELSE None

----------------------------------------------------------------------------
(* Dictionaries are functions; f'lap_{n}' keys are the lap numbers n *)

EmptyDict == <<>>
Put(d, k, v) == [x \in (DOMAIN d) \cup {k} |-> IF x = k THEN v ELSE d[x]]

SetMax(S) == CHOOSE x \in S : \A y \in S : y <= x
SetMin(S) == CHOOSE x \in S : \A y \in S : x <= y

----------------------------------------------------------------------------
(* _analyze_telemetry_patterns *)

SpeedDropThreshold == 20

SpeedDropAnomaly_AtLeast(speed_drop) == speed_drop >= SpeedDropThreshold

\* if speed_drop > 20
SpeedDropAnomaly(speed_drop) == speed_drop > SpeedDropThreshold

\* if position_drop > 0
PositionDropAnomaly(position_drop) == position_drop > 0

\* the dict {lap_key: data[field]} over the laps whose field is not None
PresentField(telemetry_data, Field(_)) ==
    LET keys == {k \in DOMAIN telemetry_data : ~IsNone(Field(telemetry_data[k]))}
    IN  [k \in keys |-> Val(Field(telemetry_data[k]))]

analyze_telemetry_patterns(telemetry_data, incident_lap) ==
    LET speeds    == PresentField(telemetry_data, LAMBDA d : d.speed_fl)
        positions == PresentField(telemetry_data, LAMBDA d : d.position)
        speed_values    == {speeds[k] : k \in DOMAIN speeds}
        position_values == {positions[k] : k \in DOMAIN positions}
        speed_analysis ==
            IF Cardinality(DOMAIN speeds) >= 2
            THEN [max_speed      |-> SetMax(speed_values),
                  min_speed      |-> SetMin(speed_values),
                  speed_variance |-> SetMax(speed_values) - SetMin(speed_values),
                  incident_lap_speed |->
                      IF incident_lap \in DOMAIN speeds
                      THEN Some(speeds[incident_lap]) ELSE None]
            ELSE EmptyDict
        speed_anomalies ==
            IF /\ Cardinality(DOMAIN speeds) >= 2
               /\ incident_lap \in DOMAIN speeds
               /\ (incident_lap - 1) \in DOMAIN speeds
               /\ SpeedDropAnomaly(speeds[incident_lap - 1] - speeds[incident_lap])
            THEN << [kind   |-> "speed_drop",
                     amount |-> speeds[incident_lap - 1] - speeds[incident_lap]] >>
            ELSE <<>>
        position_analysis ==
            IF Cardinality(DOMAIN positions) >= 2
            THEN [position_change |->
                      SetMax(position_values) - SetMin(position_values),
                  incident_lap_position |->
                      IF incident_lap \in DOMAIN positions
                      THEN Some(positions[incident_lap]) ELSE None]
            ELSE EmptyDict
        position_anomalies ==
            IF /\ Cardinality(DOMAIN positions) >= 2
               /\ incident_lap \in DOMAIN positions
               /\ (incident_lap - 1) \in DOMAIN positions
               /\ PositionDropAnomaly(positions[incident_lap]
                                      - positions[incident_lap - 1])
            THEN << [kind   |-> "position_drop",
                     amount |-> positions[incident_lap]
                                - positions[incident_lap - 1]] >>
            ELSE <<>>
    IN  [speed_analysis    |-> speed_analysis,
         position_analysis |-> position_analysis,
         anomalies         |-> speed_anomalies \o position_anomalies]

----------------------------------------------------------------------------
(* _get_car_telemetry_data: the fetch either yields the lap's channel       *)
(* statistics or fails (any exception is caught) and yields None.  Which    *)
(* fetches succeed is decided outside the program, anew at every call of a  *)
(* scanner that fetches; one outcome per lap and call is told apart.        *)

FetchedPairs == {<<"VER", 2>>}
FetchOutcomes == SUBSET FetchedPairs

get_car_telemetry_data(fetched, driver_abbrev, lap_num) ==
    IF <<driver_abbrev, lap_num>> \in fetched THEN Some("telemetry_stats")
    ELSE None

----------------------------------------------------------------------------
(* _analyze_incident_telemetry *)

IncidentWindow_Narrow(incident_lap) ==
    <<incident_lap - 1, incident_lap, incident_lap + 1>>

\* analysis_laps = [incident_lap - 2, ..., incident_lap + 2]
IncidentWindow(incident_lap) ==
    <<incident_lap - 2, incident_lap - 1, incident_lap,
      incident_lap + 1, incident_lap + 2>>

\* self.lap_data[(Driver == driver_abbrev) & (LapNumber == lap_num)]
LapRows(ld, driver_abbrev, lap_num) ==
    SelectSeq(ld, LAMBDA r : r.Driver = driver_abbrev /\ r.LapNumber = lap_num)

\* the laps of the window that get an entry: lap_num > 0 and a row exists
WindowLaps(ld, driver_abbrev, analysis_laps) ==
    {analysis_laps[i] : i \in
        {j \in 1..Len(analysis_laps) :
            /\ ~(analysis_laps[j] <= 0)
            /\ LapRows(ld, driver_abbrev, analysis_laps[j]) # <<>>}}

\* telemetry_data of one lap, with the channel statistics merged in
IncidentLapTelemetry(fetched, lap_info, driver_abbrev, lap_num) ==
    [lap_number    |-> lap_num,
     position      |-> lap_info.Position,
     speed_fl      |-> lap_info.SpeedFL,
     car_telemetry |-> get_car_telemetry_data(fetched, driver_abbrev, lap_num)]

DriverTelemetry_StopAtFailure(fetched, ld, driver_abbrev, incident_lap) ==
    LET laps == WindowLaps(ld, driver_abbrev, IncidentWindow(incident_lap))
    IN  [n \in {m \in laps : \A j \in laps : j <= m => <<driver_abbrev, j>> \in fetched} |->
            IncidentLapTelemetry(fetched, LapRows(ld, driver_abbrev, n)[1],
                                 driver_abbrev, n)]

\* driver_telemetry: {f'lap_{lap_num}': telemetry_data}
DriverTelemetry(fetched, ld, driver_abbrev, incident_lap) ==
    [n \in WindowLaps(ld, driver_abbrev, IncidentWindow(incident_lap)) |->
        IncidentLapTelemetry(fetched, LapRows(ld, driver_abbrev, n)[1],
                             driver_abbrev, n)]

HasTelemetry_Always(driver_telemetry) == TRUE

\* if driver_telemetry:  (a dict with at least one lap)
HasTelemetry(driver_telemetry) == DOMAIN driver_telemetry # {}

\* the loop  for driver_num in drivers,  from participant i on
RECURSIVE CorrelateDrivers(_, _, _, _, _, _, _)
CorrelateDrivers(fetched, ld, sr, incident_lap, drivers, i, telemetry_analysis) ==
    IF i > Len(drivers) THEN telemetry_analysis
    ELSE LET driver_abbrev == get_driver_from_car_number(sr, drivers[i])
         IN  IF IsNone(driver_abbrev)
             THEN CorrelateDrivers(fetched, ld, sr, incident_lap, drivers, i + 1,
                                   telemetry_analysis)
             ELSE LET driver_telemetry ==
                          DriverTelemetry(fetched, ld, Val(driver_abbrev), incident_lap)
                      entry ==
                          [driver_number |-> drivers[i],
                           lap_data      |-> driver_telemetry,
                           analysis      |-> analyze_telemetry_patterns(
                                                 driver_telemetry, incident_lap)]
                  IN  CorrelateDrivers(fetched, ld, sr, incident_lap, drivers, i + 1,
                          IF HasTelemetry(driver_telemetry)
                          THEN Put(telemetry_analysis, Val(driver_abbrev), entry)
                          ELSE telemetry_analysis)

\* not incident_lap: None or 0
Falsy(incident_lap) == IsNone(incident_lap) \/ Val(incident_lap) = 0

analyze_incident_telemetry(fetched, ld, sr, incident_lap, drivers) ==
    IF Falsy(incident_lap) \/ drivers = <<>> \/ IsNone(ld) THEN EmptyDict
    ELSE CorrelateDrivers(fetched, Val(ld), sr, Val(incident_lap), drivers, 1,
                          EmptyDict)

----------------------------------------------------------------------------
(* analyze_pit_stop_strategies.  A scanner that can raise yields a record   *)
(* [raised, value]: raised is the exception's name, "" when it returns.     *)

\* driver_laps[driver_laps['PitInTime'].notna()]
PitInLaps(driver_laps) == SelectSeq(driver_laps, LAMBDA r : ~IsNone(r.PitInTime))

\* driver_laps[driver_laps['LapNumber'] == n]['Position']
PositionsOnLap(driver_laps, n) ==
    Map(SelectSeq(driver_laps, LAMBDA r : r.LapNumber = n),
        LAMBDA r : r.Position)

\* driver_laps['LapNumber'].max()
LastLap(driver_laps) ==
    SetMax({driver_laps[i].LapNumber : i \in 1..Len(driver_laps)})

\* the exception one pit stop raises: .iloc[0] on an empty selection is an
\* IndexError, int() of a NaN position a ValueError
PitStopRaises(driver_laps, pit) ==
    LET lap_num == pit.LapNumber
        before  == PositionsOnLap(driver_laps, lap_num - 1)
        after   == PositionsOnLap(driver_laps, lap_num + 1)
    IN  IF lap_num > 1 /\ before = <<>> THEN "IndexError"
        ELSE IF lap_num < LastLap(driver_laps) /\ after = <<>> THEN "IndexError"
        ELSE IF lap_num > 1 /\ IsNone(before[1]) THEN "ValueError"
        ELSE IF lap_num < LastLap(driver_laps) /\ IsNone(after[1])
             THEN "ValueError"
        ELSE ""

\* if pos:  (neither None nor 0; a NaN has raised before)
Truthy(pos) == ~IsNone(pos) /\ Val(pos) # 0

\* pos_after - pos_before
PitStopChange(pos_before, pos_after) == Val(pos_after) - Val(pos_before)

\* the record appended for one pit stop that raises nothing
PitStopRecord(driver_laps, pit) ==
    LET lap_num    == pit.LapNumber
        pos_before == IF lap_num > 1
                      THEN PositionsOnLap(driver_laps, lap_num - 1)[1] ELSE None
        pos_after  == IF lap_num < LastLap(driver_laps)
                      THEN PositionsOnLap(driver_laps, lap_num + 1)[1] ELSE None
    IN  [lap             |-> lap_num,
         compound        |-> pit.Compound,
         tyre_life       |-> pit.TyreLife,
         position_before |-> IF Truthy(pos_before) THEN pos_before ELSE None,
         position_after  |-> IF Truthy(pos_after) THEN pos_after ELSE None,
         position_change |->
             IF Truthy(pos_before) /\ Truthy(pos_after)
             THEN Some(PitStopChange(pos_before, pos_after)) ELSE None]

\* strategies as the list of its items in insertion order
analyze_pit_stop_strategies(ld) ==
    IF IsNone(ld) THEN [raised |-> "", value |-> <<>>]
    ELSE
    LET Laps(d) == DriverLaps(Val(ld), d)
        pitting == SelectSeq(LapDrivers(Val(ld)),
                             LAMBDA d : PitInLaps(Laps(d)) # <<>>)
        raises  == SelectSeq(
                       Concat(Map(pitting, LAMBDA d :
                           Map(PitInLaps(Laps(d)),
                               LAMBDA pit : PitStopRaises(Laps(d), pit)))),
                       LAMBDA e : e # "")
    IN  IF raises # <<>> THEN [raised |-> raises[1], value |-> <<>>]
        ELSE [raised |-> "",
              value  |-> Map(pitting, LAMBDA d :
                             [driver |-> d,
                              stops  |-> Map(PitInLaps(Laps(d)),
                                  LAMBDA pit : PitStopRecord(Laps(d), pit))])]

----------------------------------------------------------------------------
(* _get_steward_action *)

get_steward_action_NotedFirst(message) ==
    IF Contains(<<"NOTED">>, message) THEN "Noted"
    ELSE IF Contains(<<"NO", "FURTHER", "ACTION">>, message)
         THEN "No further action"
    ELSE IF Contains(<<"UNDER", "INVESTIGATION">>, message)
         THEN "Under investigation"
    ELSE IF Contains(<<"WILL", "BE", "INVESTIGATED">>, message)
         THEN "Will be investigated after race"
    ELSE IF Contains(<<"DELETED">>, message) THEN "Lap time deleted"
    ELSE "Unknown"

get_steward_action(message) ==
    IF Contains(<<"NO", "FURTHER", "ACTION">>, message) THEN "No further action"
    ELSE IF Contains(<<"UNDER", "INVESTIGATION">>, message)
         THEN "Under investigation"
    ELSE IF Contains(<<"WILL", "BE", "INVESTIGATED">>, message)
         THEN "Will be investigated after race"
    ELSE IF Contains(<<"DELETED">>, message) THEN "Lap time deleted"
    ELSE IF Contains(<<"NOTED">>, message) THEN "Noted"
    ELSE "Unknown"

----------------------------------------------------------------------------
(* analyze_incidents *)

incident_keywords ==
    << <<"INCIDENT">>, <<"CRASH">>, <<"COLLISION">>, <<"OFF", "TRACK">>,
       <<"SPIN">>, <<"CONTACT">> >>

IsIncidentMessage_CaseSensitive(row) ==
    StrContains_CaseSensitive(row.Message, incident_keywords)

IsIncidentMessage_WithLap(row) ==
    StrContains(row.Message, incident_keywords) /\ ~IsNone(row.Lap)

\* the row filter of incident_messages
IsIncidentMessage(row) == StrContains(row.Message, incident_keywords)

\* int(incident['Lap']) if not pd.isna(incident['Lap']) else None
LapOf(row) == IF IsNone(row.Lap) THEN None ELSE Some(Val(row.Lap))

\* drivers: the car numbers of the message
IncidentDrivers(message) ==
    IF Contains(<<"CAR">>, message) THEN FindAllCar(message) ELSE <<>>

IncidentRecord(fetched, ld, sr, incident) ==
    [lap            |-> LapOf(incident),
     message        |-> Val(incident.Message),
     drivers        |-> IncidentDrivers(Val(incident.Message)),
     steward_action |-> get_steward_action(Val(incident.Message)),
     telemetry_analysis |->
         analyze_incident_telemetry(fetched, ld, sr, LapOf(incident),
                                    IncidentDrivers(Val(incident.Message)))]

analyze_incidents(fetched, rc, ld, sr) ==
    IF IsNone(rc) \/ IsNone(ld) THEN <<>>
    ELSE Map(SelectSeq(Val(rc), IsIncidentMessage),
             LAMBDA incident : IncidentRecord(fetched, ld, sr, incident))

----------------------------------------------------------------------------
(* analyze_track_limits_violations and _analyze_violation_telemetry *)

\* analysis_laps = [violation_lap - 1, violation_lap, violation_lap + 1]
ViolationWindow(violation_lap) ==
    <<violation_lap - 1, violation_lap, violation_lap + 1>>

ViolationLapTelemetry(lap_info, lap_num) ==
    [lap_number |-> lap_num,
     position   |-> lap_info.Position,
     speed_fl   |-> lap_info.SpeedFL]

ViolationSpeedThreshold == 10

\* if abs(speed_diff) > 10
ViolationSpeedAnomaly(speed_diff) == Abs(speed_diff) > ViolationSpeedThreshold

analyze_violation_telemetry(ld, driver_abbrev, violation_lap) ==
    IF IsNone(ld) THEN EmptyDict
    ELSE
    LET telemetry_data ==
            [n \in WindowLaps(Val(ld), driver_abbrev,
                              ViolationWindow(violation_lap)) |->
                ViolationLapTelemetry(LapRows(Val(ld), driver_abbrev, n)[1], n)]
        speeds == PresentField(telemetry_data, LAMBDA d : d.speed_fl)
        speed_values == {speeds[k] : k \in DOMAIN speeds}
        speed_analysis ==
            IF Cardinality(DOMAIN speeds) >= 2
            THEN [max_speed |-> SetMax(speed_values),
                  min_speed |-> SetMin(speed_values),
                  violation_lap_speed |->
                      IF violation_lap \in DOMAIN speeds
                      THEN Some(speeds[violation_lap]) ELSE None]
            ELSE EmptyDict
        anomalies ==
            IF /\ Cardinality(DOMAIN speeds) >= 2
               /\ violation_lap \in DOMAIN speeds
               /\ (violation_lap - 1) \in DOMAIN speeds
               /\ ViolationSpeedAnomaly(speeds[violation_lap]
                                        - speeds[violation_lap - 1])
            THEN << [kind   |-> "speed_change",
                     amount |-> speeds[violation_lap]
                                - speeds[violation_lap - 1]] >>
            ELSE <<>>
    IN  [lap_data |-> telemetry_data,
         analysis |-> [speed_analysis |-> speed_analysis,
                       anomalies      |-> anomalies]]

track_limits_patterns == << <<"TRACK", "LIMITS">>, <<"DELETED">> >>

\* the row filter of track_limits_messages
IsTrackLimitsMessage(row) == StrContains(row.Message, track_limits_patterns)

\* [0-9:\.]+
TimeTokens == DigitTokens \cup {"1:23.456"}

SearchAfter_Last(word, Class, text) ==
    LET hits == {i \in 1..(Len(text) - 1) :
                    text[i] = word /\ text[i + 1] \in Class}
    IN  IF hits = {} THEN None ELSE Some(text[SetMax(hits) + 1])

\* re.search(r'<word> (<class>+)', message): group(1) of the first match
SearchAfter(word, Class, text) ==
    LET hits == {i \in 1..(Len(text) - 1) :
                    text[i] = word /\ text[i + 1] \in Class}
    IN  IF hits = {} THEN None ELSE Some(text[SetMin(hits) + 1])

ViolationRecord(ld, sr, violation) ==
    LET message       == Val(violation.Message)
        violation_lap == LapOf(violation)
        driver_number == SearchAfter("CAR", DigitTokens, message)
        driver_abbrev ==
            IF IsNone(driver_number) THEN None
            ELSE get_driver_from_car_number(sr, Val(driver_number))
    IN  [lap                 |-> violation_lap,
         driver_number       |-> driver_number,
         driver_abbreviation |-> driver_abbrev,
         deleted_time        |-> SearchAfter("TIME", TimeTokens, message),
         turn                |-> SearchAfter("TURN", DigitTokens, message),
         message             |-> message,
         telemetry_analysis  |->
             IF ~Falsy(violation_lap) /\ ~IsNone(driver_number)
                /\ ~IsNone(driver_abbrev)
             THEN analyze_violation_telemetry(ld, Val(driver_abbrev),
                                              Val(violation_lap))
             ELSE EmptyDict]

analyze_track_limits_violations(rc, ld, sr) ==
    IF IsNone(rc) THEN <<>>
    ELSE Map(SelectSeq(Val(rc), IsTrackLimitsMessage),
             LAMBDA violation : ViolationRecord(ld, sr, violation))

----------------------------------------------------------------------------
(* analyze_yellow_flags *)

IsYellowMessage(row) == StrContains(row.Message, << <<"YELLOW">> >>)

analyze_yellow_flags(rc) ==
    IF IsNone(rc) THEN <<>>
    ELSE Map(SelectSeq(Val(rc), IsYellowMessage),
             LAMBDA flag : [lap     |-> LapOf(flag),
                            message |-> Val(flag.Message)])

----------------------------------------------------------------------------
(* identify_commentary_segments *)

MajorMinChange == 5
TopChanges == 5

\* collisions = [inc for inc in incidents if 'COLLISION' in inc['message']]
IsCollision(inc) == Contains(<<"COLLISION">>, inc.message)

\* position_changes[:5]
Top(s) == SubSeq(s, 1, IF Len(s) < TopChanges THEN Len(s) ELSE TopChanges)

CollisionSegment(collision) ==
    [priority       |-> 1,
     type           |-> "collision",
     lap            |-> collision.lap,
     description    |-> collision.message,
     drivers        |-> collision.drivers,
     steward_action |-> collision.steward_action]

PositionChangeSegment(change) ==
    [priority      |-> 2,
     type          |-> "position_change",
     lap           |-> change.lap,
     driver        |-> change.driver,
     change        |-> change.change,
     from_position |-> change.from_position,
     to_position   |-> change.to_position]

TrackLimitsSegment(violation) ==
    [priority      |-> 3,
     type          |-> "track_limits",
     lap           |-> violation.lap,
     description   |-> violation.message,
     driver_number |-> violation.driver_number,
     turn          |-> violation.turn]

YellowFlagSegment(flag) ==
    [priority    |-> 4,
     type        |-> "yellow_flag",
     lap         |-> flag.lap,
     description |-> flag.message]

SortSegments_Reversed(segments) ==
    Values(SortDescending(Map(segments, LAMBDA x : <<x.priority, x>>)))

\* segments.sort(key=lambda x: x['priority'])
SortSegments(segments) ==
    Values(SortAscending(Map(segments, LAMBDA x : <<x.priority, x>>)))

identify_commentary_segments(fetched, rc, ld, sr) ==
    LET incidents        == analyze_incidents(fetched, rc, ld, sr)
        position_changes == analyze_position_changes(ld, MajorMinChange)
        track_limits     == analyze_track_limits_violations(rc, ld, sr)
        yellow_flags     == analyze_yellow_flags(rc)
        collisions       == SelectSeq(incidents, IsCollision)
    IN  SortSegments(
            Map(collisions, CollisionSegment)
            \o Map(Top(position_changes), PositionChangeSegment)
            \o Map(track_limits, TrackLimitsSegment)
            \o Map(yellow_flags, YellowFlagSegment))

----------------------------------------------------------------------------
(* analyze_race_overview.  Of the columns of session_results.csv the rows   *)
(* carry Abbreviation; FullName, TeamName, Time and Points are copied from  *)
(* the same row in the same way.                                            *)

\* session_results.head(3) with its running index
Podium(results) ==
    [i \in 1..(IF Len(results) < 3 THEN Len(results) ELSE 3) |->
        [position |-> i, driver |-> results[i].Abbreviation]]

\* self.session_results.empty on a table that was never read is an
\* AttributeError; int() of the maximum of no lap numbers a ValueError
analyze_race_overview(ld, sr) ==
    IF IsNone(ld) THEN [raised |-> "", value |-> EmptyDict]
    ELSE IF IsNone(sr) THEN [raised |-> "AttributeError", value |-> EmptyDict]
    ELSE IF Val(ld) = <<>> THEN [raised |-> "ValueError", value |-> EmptyDict]
    ELSE [raised |-> "",
          value  |->
              [total_laps  |-> SetMax({Val(ld)[i].LapNumber : i \in 1..Len(Val(ld))}),
               total_drivers     |-> Len(LapDrivers(Val(ld))),
               total_lap_records |-> Len(Val(ld)),
               winner |-> IF Val(sr) # <<>>
                          THEN Some([driver |-> Val(sr)[1].Abbreviation])
                          ELSE None,
               podium |-> Podium(Val(sr))]]

----------------------------------------------------------------------------
(* analyze_weather_impact.  The mean is kept as the sum and the count.      *)

RECURSIVE SumOf(_)
SumOf(s) == IF s = <<>> THEN 0 ELSE Head(s) + SumOf(Tail(s))

\* {'min': ..., 'max': ..., 'avg': ...} of one column
ColumnSummary(wd, column) ==
    LET cells == [i \in 1..Len(wd) |-> wd[i][column]]
    IN  [min |-> SetMin({cells[i] : i \in 1..Len(cells)}),
         max |-> SetMax({cells[i] : i \in 1..Len(cells)}),
         avg |-> [sum |-> SumOf(cells), count |-> Len(cells)]]

analyze_weather_impact(wd) ==
    IF IsNone(wd) THEN EmptyDict
    ELSE IF Val(wd) = <<>> THEN EmptyDict
    ELSE [air_temperature   |-> ColumnSummary(Val(wd), "AirTemp"),
          track_temperature |-> ColumnSummary(Val(wd), "TrackTemp"),
          humidity          |-> ColumnSummary(Val(wd), "Humidity"),
          pressure          |-> ColumnSummary(Val(wd), "Pressure"),
          wind_speed        |-> ColumnSummary(Val(wd), "WindSpeed"),
          rainfall |-> IF \E i \in 1..Len(Val(wd)) : Val(wd)[i].Rainfall
                       THEN "Rain detected" ELSE "No rain detected"]

----------------------------------------------------------------------------
(* _generate_statistics and generate_comprehensive_analysis *)

ReportMinChange == 3
StatisticsMinChange == 1
SignificantPlus == 3
MajorPlus == 5

ChangesOfAtLeast_Above(position_changes, n) ==
    Len(SelectSeq(position_changes, LAMBDA c : Abs(c.change) > n))

\* len([c for c in position_changes if abs(c['change']) >= n])
ChangesOfAtLeast(position_changes, n) ==
    Len(SelectSeq(position_changes, LAMBDA c : Abs(c.change) >= n))

\* the statistics; the pit-stop scan it ends with can raise
generate_statistics(fetched, rc, ld, sr) ==
    IF IsNone(ld) THEN [raised |-> "", value |-> EmptyDict]
    ELSE
    LET position_changes == analyze_position_changes(ld, StatisticsMinChange)
        strategies       == analyze_pit_stop_strategies(ld)
    IN  [raised |-> strategies.raised,
         value  |->
             [total_position_changes    |-> Len(position_changes),
              significant_changes_3plus |->
                  ChangesOfAtLeast(position_changes, SignificantPlus),
              major_changes_5plus |->
                  ChangesOfAtLeast(position_changes, MajorPlus),
              total_incidents |-> Len(analyze_incidents(fetched, rc, ld, sr)),
              track_limits_violations |->
                  Len(analyze_track_limits_violations(rc, ld, sr)),
              yellow_flag_periods |-> Len(analyze_yellow_flags(rc)),
              total_pit_stops |->
                  Len(Concat(Map(strategies.value, LAMBDA st : st.stops)))]]

\* the report; the entries are evaluated in the order of the dict display,
\* the first scan that raises ends the call before analysis_results is set
generate_comprehensive_analysis(fetched, rc, ld, sr, wd) ==
    LET race_overview == analyze_race_overview(ld, sr)
        strategies    == analyze_pit_stop_strategies(ld)
        statistics    == generate_statistics(fetched, rc, ld, sr)
    IN  IF race_overview.raised # ""
        THEN [raised |-> race_overview.raised, value |-> EmptyDict]
        ELSE IF strategies.raised # ""
        THEN [raised |-> strategies.raised, value |-> EmptyDict]
        ELSE [raised |-> "",
              value  |->
                  [race_overview |-> race_overview.value,
                   incidents     |-> analyze_incidents(fetched, rc, ld, sr),
                   major_position_changes |->
                       analyze_position_changes(ld, ReportMinChange),
                   pit_stop_strategies     |-> strategies.value,
                   track_limits_violations |->
                       analyze_track_limits_violations(rc, ld, sr),
                   yellow_flags       |-> analyze_yellow_flags(rc),
                   weather_conditions |-> analyze_weather_impact(wd),
                   commentary_segments |->
                       identify_commentary_segments(fetched, rc, ld, sr),
                   statistics |-> statistics.value]]

----------------------------------------------------------------------------
(* load_race_data *)

LowerToken(t) ==
    CASE t = "Hungarian" -> "hungarian"
      [] t = "Monaco"    -> "monaco"
      [] t = "Grand"     -> "grand"
      [] t = "Prix"      -> "prix"
      [] OTHER           -> t

Lower(text) == [i \in 1..Len(text) |-> LowerToken(text[i])]

\* item.is_dir() and race_name.lower() in item.name.lower()
DirMatches(race_name, item) == Contains(Lower(race_name), Lower(item.name))

\* the first matching directory of self.data_dir.iterdir(), None when none
FindCsvDir(race_name) ==
    LET hits == {i \in 1..Len(disk) : DirMatches(race_name, disk[i])}
    IN  IF hits = {} THEN None ELSE Some(disk[SetMin(hits)])

\* the six pd.read_csv calls in order; a missing file raises at its call
CsvFiles ==
    <<"lap_data", "race_control", "track_status", "session_results",
      "weather_data", "session_status">>

\* the number of read_csv calls that succeed before the first one raises
ReadCount(csv_dir) ==
    LET missing == {i \in 1..Len(CsvFiles) : IsNone(csv_dir[CsvFiles[i]])}
    IN  IF missing = {} THEN Len(CsvFiles) ELSE SetMin(missing) - 1

\* the attribute after the load: assigned when its read_csv was reached
Loaded(csv_dir, i, old) ==
    IF i <= ReadCount(csv_dir) THEN csv_dir[CsvFiles[i]] ELSE old

LoadRaceData(race_name) ==
    LET csv_dir == FindCsvDir(race_name) IN
    /\ op' = "load_race_data"
    /\ arg' = 0
    /\ IF IsNone(csv_dir)
       THEN /\ loaded' = FALSE
            /\ UNCHANGED tables
       ELSE /\ lap_data'        = Loaded(Val(csv_dir), 1, lap_data)
            /\ race_control'    = Loaded(Val(csv_dir), 2, race_control)
            /\ track_status'    = Loaded(Val(csv_dir), 3, track_status)
            /\ session_results' = Loaded(Val(csv_dir), 4, session_results)
            /\ weather_data'    = Loaded(Val(csv_dir), 5, weather_data)
            /\ session_status'  = Loaded(Val(csv_dir), 6, session_status)
            /\ loaded' = (ReadCount(Val(csv_dir)) = Len(CsvFiles))
    /\ ret' = None
    /\ raised' = ""
    /\ fastf1' = {}
    /\ UNCHANGED <<disk, files, settings, instances, analysis_results>>

----------------------------------------------------------------------------
(* The scanners as operations of the analyzer *)

AnalyzeIncidents ==
    \E fetched \in FetchOutcomes :
       /\ fastf1' = fetched
       /\ UNCHANGED <<disk, files, settings, instances, tables, analysis_results, loaded>>
       /\ op' = "analyze_incidents"
       /\ arg' = 0
       /\ ret' = analyze_incidents(fetched, race_control, lap_data, session_results)
       /\ raised' = ""

AnalyzePositionChanges(min_change) ==
    /\ op' = "analyze_position_changes"
    /\ arg' = min_change
    /\ ret' = analyze_position_changes(lap_data, min_change)
    /\ raised' = ""
    /\ fastf1' = {}
    /\ UNCHANGED <<disk, files, settings, instances, tables, analysis_results, loaded>>

AnalyzeTrackLimitsViolations ==
    /\ op' = "analyze_track_limits_violations"
    /\ arg' = 0
    /\ ret' = analyze_track_limits_violations(race_control, lap_data,
                                              session_results)
    /\ raised' = ""
    /\ fastf1' = {}
    /\ UNCHANGED <<disk, files, settings, instances, tables, analysis_results, loaded>>

AnalyzeYellowFlags ==
    /\ op' = "analyze_yellow_flags"
    /\ arg' = 0
    /\ ret' = analyze_yellow_flags(race_control)
    /\ raised' = ""
    /\ fastf1' = {}
    /\ UNCHANGED <<disk, files, settings, instances, tables, analysis_results, loaded>>

AnalyzePitStopStrategies ==
    LET strategies == analyze_pit_stop_strategies(lap_data) IN
    /\ op' = "analyze_pit_stop_strategies"
    /\ arg' = 0
    /\ ret' = strategies.value
    /\ raised' = strategies.raised
    /\ fastf1' = {}
    /\ UNCHANGED <<disk, files, settings, instances, tables, analysis_results, loaded>>

IdentifyCommentarySegments ==
    \E fetched \in FetchOutcomes :
       /\ fastf1' = fetched
       /\ UNCHANGED <<disk, files, settings, instances, tables, analysis_results, loaded>>
       /\ op' = "identify_commentary_segments"
       /\ arg' = 0
       /\ ret' = identify_commentary_segments(fetched, race_control, lap_data,
                                              session_results)
       /\ raised' = ""

\* the scanners that return one dict: ret holds it as a list of one, and
\* nothing when the call raised
AnalyzeRaceOverview_Stored ==
    \E overview \in {analyze_race_overview(lap_data, session_results)} :
       /\ op' = "analyze_race_overview"
       /\ arg' = 0
       /\ raised' = overview.raised
       /\ ret' = IF overview.raised = "" THEN Some(overview.value) ELSE None
       /\ fastf1' = {}
       /\ analysis_results' = [race_overview |-> overview.value]
       /\ UNCHANGED <<disk, files, settings, instances, tables, loaded>>

AnalyzeRaceOverview ==
    \E overview \in {analyze_race_overview(lap_data, session_results)} :
       /\ op' = "analyze_race_overview"
       /\ arg' = 0
       /\ raised' = overview.raised
       /\ ret' = IF overview.raised = "" THEN Some(overview.value) ELSE None
       /\ fastf1' = {}
       /\ UNCHANGED <<disk, files, settings, instances, tables, analysis_results, loaded>>

AnalyzeWeatherImpact ==
    /\ op' = "analyze_weather_impact"
    /\ arg' = 0
    /\ raised' = ""
    /\ ret' = Some(analyze_weather_impact(weather_data))
    /\ fastf1' = {}
    /\ UNCHANGED <<disk, files, settings, instances, tables, analysis_results, loaded>>

GenerateStatistics ==
    \E fetched \in FetchOutcomes :
       \E statistics \in {generate_statistics(fetched, race_control, lap_data,
                                               session_results)} :
           /\ op' = "_generate_statistics"
           /\ arg' = 0
           /\ raised' = statistics.raised
           /\ ret' = IF statistics.raised = "" THEN Some(statistics.value) ELSE None
           /\ fastf1' = fetched
           /\ UNCHANGED <<disk, files, settings, instances, tables, analysis_results, loaded>>

\* the report is returned and kept in self.analysis_results; ret holds it
\* as a list of one, and nothing when the call raised
GenerateComprehensiveAnalysis ==
    \E fetched \in FetchOutcomes :
       \E report \in {generate_comprehensive_analysis(
                          fetched, race_control, lap_data, session_results,
                          weather_data)} :
           /\ fastf1' = fetched
           /\ op' = "generate_comprehensive_analysis"
           /\ arg' = 0
           /\ raised' = report.raised
           /\ ret' = IF report.raised = "" THEN Some(report.value) ELSE None
           /\ analysis_results' =
                  IF report.raised = "" THEN report.value ELSE analysis_results
           /\ UNCHANGED <<disk, files, settings, instances, tables, loaded>>

----------------------------------------------------------------------------
(* save_analysis and the runs of main and of the analyze command *)

\* the choices of --format and the output directory of the runs
Formats == {"json", "txt", "all"}

OutputDir == "analysis_results"

\* the files the two 'if format in [...]' blocks write
FormatKinds(format) ==
    (IF format \in {"json", "all"} THEN {"json"} ELSE {})
        \cup (IF format \in {"txt", "all"} THEN {"txt"} ELSE {})

\* save_analysis: nothing without results; Path(output_dir) raises for None
save_analysis(results, output_dir, format) ==
    IF results = EmptyDict THEN [raised |-> "", written |-> {}]
    ELSE IF IsNone(output_dir) THEN [raised |-> "TypeError", written |-> {}]
    ELSE [raised  |-> "",
          written |-> {[dir |-> Val(output_dir), kind |-> k] :
                           k \in FormatKinds(format)}]

\* load_race_data on a new analyzer: the Boolean it returns
LoadSucceeds(race_name) ==
    LET csv_dir == FindCsvDir(race_name)
    IN  ~IsNone(csv_dir) /\ ReadCount(Val(csv_dir)) = Len(CsvFiles)

\* attribute i of a new analyzer after load_race_data(race_name)
NewlyLoaded(race_name, i) ==
    LET csv_dir == FindCsvDir(race_name)
    IN  IF IsNone(csv_dir) THEN None ELSE Loaded(Val(csv_dir), i, None)

\* the report with the result of the load ignored
RunReport_LoadIgnored(fetched, race_name) ==
    LET T(i) == NewlyLoaded(race_name, i)
    IN  generate_comprehensive_analysis(fetched, T(2), T(1), T(4), T(5))

\* the report of a run: generate_comprehensive_analysis is reached only
\* after a successful load
RunReport(fetched, race_name) ==
    LET T(i) == NewlyLoaded(race_name, i)
    IN  IF LoadSucceeds(race_name)
        THEN generate_comprehensive_analysis(fetched, T(2), T(1), T(4), T(5))
        ELSE [raised |-> "", value |-> EmptyDict]

\* save_analysis is reached only after the report
RunSave(report, output_dir, format) ==
    IF report.raised = "" /\ report.value # EmptyDict
    THEN save_analysis(report.value, output_dir, format)
    ELSE [raised |-> "", written |-> {}]

\* the analyzer of a run and the files it leaves
RunEffect(fetched, race_name, report, saved) ==
    /\ arg' = race_name
    /\ lap_data'        = NewlyLoaded(race_name, 1)
    /\ race_control'    = NewlyLoaded(race_name, 2)
    /\ track_status'    = NewlyLoaded(race_name, 3)
    /\ session_results' = NewlyLoaded(race_name, 4)
    /\ weather_data'    = NewlyLoaded(race_name, 5)
    /\ session_status'  = NewlyLoaded(race_name, 6)
    /\ loaded' = LoadSucceeds(race_name)
    /\ analysis_results' = IF report.raised = "" THEN report.value ELSE EmptyDict
    /\ fastf1' = IF report.value # EmptyDict THEN fetched ELSE {}
    /\ files' = files \cup saved.written
    /\ UNCHANGED <<disk, settings, instances>>

\* main: a new analyzer, sys.exit(1) after a failed load; an exception of the
\* analysis is not caught and ends the process with status 1; ret holds the
\* exit status; --summary only prints
Main(race_name, output_dir) ==
    \E fetched \in FetchOutcomes :
       \E report \in {RunReport(fetched, race_name)} :
          \E format \in Formats :
             \E saved \in {RunSave(report, Some(output_dir), format)} :
                /\ op' = "main"
                /\ RunEffect(fetched, race_name, report, saved)
                /\ raised' = report.raised
                /\ ret' = IF LoadSucceeds(race_name) /\ report.raised = ""
                          THEN <<0>> ELSE <<1>>

\* handle_analyze: the same steps on the analyzer of the package, whose
\* module is not in the source tree and is taken to be the F1RaceAnalyzer
\* above; every exception is caught and turned into the return value 1; ret
\* holds the return value
HandleAnalyze(race_name) ==
    \E fetched \in FetchOutcomes :
       \E report \in {RunReport(fetched, race_name)} :
          \E format \in Formats, output \in {None, Some(OutputDir)} :
             \E saved \in {RunSave(report, output, format)} :
                /\ op' = "handle_analyze"
                /\ RunEffect(fetched, race_name, report, saved)
                /\ raised' = ""
                /\ ret' = IF /\ LoadSucceeds(race_name)
                             /\ report.raised = ""
                             /\ saved.raised = ""
                          THEN <<0>> ELSE <<1>>

----------------------------------------------------------------------------
(* config/settings.py: the global Settings instance *)

\* three of the fields of the dataclass with their defaults
DefaultSettings ==
    [log_level |-> "INFO", min_position_change |-> 3, default_fps |-> 30]

\* Settings(): the n-th object constructed; id stands for its identity
NewSettings(n) == [id |-> n, values |-> DefaultSettings]

\* hasattr(_settings, key)
HasAttr(instance, key) == key \in DOMAIN instance.values

\* the loop over kwargs.items(): the attributes are set in order up to the
\* first unknown key, which raises ValueError
SetAttrs(instance, kwargs) ==
    LET unknown == {i \in 1..Len(kwargs) : ~HasAttr(instance, kwargs[i][1])}
        n       == IF unknown = {} THEN Len(kwargs) ELSE SetMin(unknown) - 1
        Last(k) == SetMax({i \in 1..n : kwargs[i][1] = k})
        set     == {kwargs[i][1] : i \in 1..n}
    IN  [raised   |-> IF unknown = {} THEN "" ELSE "ValueError",
         instance |->
             [instance EXCEPT !.values =
                 [k \in DOMAIN instance.values |->
                     IF k \in set THEN kwargs[Last(k)][2]
                     ELSE instance.values[k]]]]

\* get_settings constructing a new object at every call
GetSettings_Fresh ==
    /\ instances < 3
    /\ op' = "get_settings"
    /\ arg' = <<>>
    /\ instances' = instances + 1
    /\ settings' = Some(NewSettings(instances + 1))
    /\ ret' = <<instances + 1>>
    /\ raised' = ""
    /\ UNCHANGED <<disk, files, tables, analysis_results, fastf1, loaded>>

\* get_settings: the global is constructed at the first use; ret holds the
\* identity of the object returned
GetSettings ==
    /\ op' = "get_settings"
    /\ arg' = <<>>
    /\ instances' = IF IsNone(settings) THEN instances + 1 ELSE instances
    /\ settings' = IF IsNone(settings) THEN Some(NewSettings(instances + 1))
                   ELSE settings
    /\ ret' = <<Val(settings').id>>
    /\ raised' = ""
    /\ UNCHANGED <<disk, files, tables, analysis_results, fastf1, loaded>>

\* update_settings(**kwargs); arg holds the keyword arguments in order
UpdateSettings(kwargs) ==
    LET current == IF IsNone(settings) THEN NewSettings(instances + 1)
                   ELSE Val(settings)
        updated == SetAttrs(current, kwargs)
    IN  /\ op' = "update_settings"
        /\ arg' = kwargs
        /\ instances' = IF IsNone(settings) THEN instances + 1 ELSE instances
        /\ settings' = Some(updated.instance)
        /\ ret' = None
        /\ raised' = updated.raised
        /\ UNCHANGED <<disk, files, tables, analysis_results, fastf1, loaded>>

----------------------------------------------------------------------------
(* utils/data_utils.py: clean_dataframe *)

\* a frame is its column labels and its rows, a row its index label and one
\* cell per column; a cell is missing (None) or holds a string, a number or
\* a datetime
Text(s) == Some([kind |-> "str", v |-> s])

Number(s) == Some([kind |-> "num", v |-> s])

Datetime(s) == Some([kind |-> "datetime", v |-> s])

Frame(columns, rows) == [columns |-> columns, rows |-> rows]

\* df.empty: an axis of length 0
FrameEmpty(df) == Len(df.rows) = 0 \/ Len(df.columns) = 0

ColumnSet(df) == {df.columns[i] : i \in 1..Len(df.columns)}

\* dropna(how='all'): the rows with a cell that is not missing
DropEmptyRows(df) ==
    Frame(df.columns,
          SelectSeq(df.rows, LAMBDA r :
              \E c \in ColumnSet(df) : ~IsNone(r.cells[c])))

\* dropna(axis=1, how='all'): the columns with a cell that is not missing
DropEmptyColumns(df) ==
    LET kept == SelectSeq(df.columns, LAMBDA c :
                    \E i \in 1..Len(df.rows) : ~IsNone(df.rows[i].cells[c]))
        keys == {kept[i] : i \in 1..Len(kept)}
    IN  Frame(kept,
              [i \in 1..Len(df.rows) |->
                  [df.rows[i] EXCEPT !.cells = [c \in keys |-> df.rows[i].cells[c]]]])

ColumnCells(df, c) == [i \in 1..Len(df.rows) |-> df.rows[i].cells[c]]

\* dtype == 'object': the column holds a string
IsObjectColumn(cells) ==
    \E i \in 1..Len(cells) : ~IsNone(cells[i]) /\ Val(cells[i]).kind = "str"

\* the strings of the inputs that parse as a number
NumericStrings == {"7"}

\* pandas' nat_strings, which to_datetime reads as NaT
NatStrings == {"NaT", "nat", "NAT", "nan", "NaN", "NAN"}

\* the strings of the inputs that parse as a date
DateStrings == {"2024-01-01"}

ParsesAsNumber(cell) ==
    \/ IsNone(cell)
    \/ Val(cell).kind = "num"
    \/ Val(cell).kind = "str" /\ Val(cell).v \in NumericStrings

\* pd.to_numeric(column, errors='ignore'): the numbers when every cell
\* parses, the column as it is otherwise
to_numeric(cells) ==
    IF \A i \in 1..Len(cells) : ParsesAsNumber(cells[i])
    THEN [i \in 1..Len(cells) |->
             IF IsNone(cells[i]) THEN None ELSE Number(Val(cells[i]).v)]
    ELSE cells

ParsesAsDatetime(cell) ==
    \/ IsNone(cell)
    \/ Val(cell).kind \in {"num", "datetime"}
    \/ Val(cell).kind = "str" /\ Val(cell).v \in NatStrings \cup DateStrings

\* pd.to_datetime(column, errors='ignore'): the datetimes when every cell
\* parses, a NaT string becoming NaT, the column as it is otherwise
to_datetime(cells) ==
    IF \A i \in 1..Len(cells) : ParsesAsDatetime(cells[i])
    THEN [i \in 1..Len(cells) |->
             IF IsNone(cells[i]) THEN None
             ELSE IF Val(cells[i]).kind = "str" /\ Val(cells[i]).v \in NatStrings
                  THEN None
             ELSE Datetime(Val(cells[i]).v)]
    ELSE cells

\* 'time' in col.lower() or 'date' in col.lower(), for the labels of the
\* inputs
NamesTime(c) == c \in {"LapTime", "Date"}

\* the loop body for one column; ignore_accepted is whether the installed
\* pandas takes errors='ignore' (before 3.0) or raises on it, which the bare
\* except swallows
ConvertColumn(c, cells, ignore_accepted) ==
    IF ~IsObjectColumn(cells) \/ ~ignore_accepted THEN cells
    ELSE IF NamesTime(c) THEN to_datetime(to_numeric(cells))
    ELSE to_numeric(cells)

ConvertColumns(df, ignore_accepted) ==
    Frame(df.columns,
          [i \in 1..Len(df.rows) |->
              [df.rows[i] EXCEPT !.cells =
                  [c \in ColumnSet(df) |->
                      ConvertColumn(c, ColumnCells(df, c), ignore_accepted)[i]]]])

clean_dataframe(df, ignore_accepted) ==
    IF FrameEmpty(df) THEN df
    ELSE ConvertColumns(DropEmptyColumns(DropEmptyRows(df)), ignore_accepted)

\* the call on the input frame; arg holds the frame passed as it is after
\* the call, which works on a copy
CleanDataframe ==
    /\ op = "input"
    /\ op' = "clean_dataframe"
    /\ arg' = [arg EXCEPT !.calls = 1]
    /\ ret' = Some(clean_dataframe(arg.df, arg.ignore_accepted))
    /\ raised' = ""
    /\ UNCHANGED <<disk, files, settings, instances, tables, analysis_results,
                   fastf1, loaded>>

\* the call on the frame the first call returned
CleanDataframeAgain ==
    /\ op = "clean_dataframe"
    /\ arg.calls = 1
    /\ op' = "clean_dataframe"
    /\ arg' = [arg EXCEPT !.calls = 2, !.df = ret[1]]
    /\ ret' = Some(clean_dataframe(ret[1], arg.ignore_accepted))
    /\ raised' = ""
    /\ UNCHANGED <<disk, files, settings, instances, tables, analysis_results,
                   fastf1, loaded>>

----------------------------------------------------------------------------
(* utils/data_utils.py: validate_race_data *)

\* a value of the data dict: a DataFrame, given by its number of rows and
\* its LapNumber column (None when it has none), or something else
DataFrame(n, laps) == [frame |-> TRUE, rows |-> n, LapNumber |-> laps]

NotAFrame == [frame |-> FALSE, rows |-> 0, LapNumber |-> None]

required_keys == <<"event_info", "session_results", "lap_data">>

ExpectedDrivers == 10
FewLaps == 10
ManyLaps == 100

\* not event_info.get(key): the key is absent or its value is empty
Missing(event_info, key) ==
    key \notin DOMAIN event_info \/ event_info[key] = ""

\* lap_data['LapNumber'].max(): 0 without the column, NaN (None) when no
\* cell holds a number
MaxLap(laps_frame) ==
    IF IsNone(laps_frame.LapNumber) THEN Some(0)
    ELSE LET laps    == Val(laps_frame.LapNumber)
             numbers == {Val(laps[i]) : i \in {j \in 1..Len(laps) : ~IsNone(laps[j])}}
         IN  IF numbers = {} THEN None ELSE Some(SetMax(numbers))

MissingKeyErrors(data) ==
    Map(SelectSeq(required_keys, LAMBDA key : key \notin DOMAIN data),
        LAMBDA key : <<"Missing required data", key>>)

EventWarnings(data) ==
    IF "event_info" \notin DOMAIN data THEN <<>>
    ELSE (IF Missing(data.event_info, "event_name")
          THEN <<<<"Event name is missing">>>> ELSE <<>>)
         \o (IF Missing(data.event_info, "date")
             THEN <<<<"Event date is missing">>>> ELSE <<>>)

HasFrame(data, key) == key \in DOMAIN data /\ data[key].frame

\* the frame under key is empty
EmptyFrame(data, key) == HasFrame(data, key) /\ data[key].rows = 0

ResultWarnings(data) ==
    IF /\ HasFrame(data, "session_results")
       /\ data.session_results.rows > 0
       /\ data.session_results.rows < ExpectedDrivers
    THEN <<<<"Only drivers in results", data.session_results.rows>>>>
    ELSE <<>>

LapWarnings(data) ==
    IF HasFrame(data, "lap_data") /\ data.lap_data.rows > 0
    THEN LET max_lap == MaxLap(data.lap_data)
         IN  IF IsNone(max_lap) THEN <<>>
             ELSE IF Val(max_lap) < FewLaps
                  THEN <<<<"Very few laps recorded", Val(max_lap)>>>>
             ELSE IF Val(max_lap) > ManyLaps
                  THEN <<<<"Unusually high lap count", Val(max_lap)>>>>
             ELSE <<>>
    ELSE <<>>

\* validate_race_data reporting an empty table as a warning
validate_race_data_EmptyAsWarning(data) ==
    [errors   |-> MissingKeyErrors(data),
     warnings |->
         EventWarnings(data)
         \o (IF EmptyFrame(data, "session_results")
             THEN <<<<"Session results are empty">>>> ELSE <<>>)
         \o ResultWarnings(data)
         \o (IF EmptyFrame(data, "lap_data")
             THEN <<<<"Lap data is empty">>>> ELSE <<>>)
         \o LapWarnings(data)]

validate_race_data(data) ==
    [errors   |->
         MissingKeyErrors(data)
         \o (IF EmptyFrame(data, "session_results")
             THEN <<<<"Session results are empty">>>> ELSE <<>>)
         \o (IF EmptyFrame(data, "lap_data")
             THEN <<<<"Lap data is empty">>>> ELSE <<>>),
     warnings |->
         EventWarnings(data) \o ResultWarnings(data) \o LapWarnings(data)]

ValidateRaceData ==
    /\ op = "input"
    /\ op' = "validate_race_data"
    /\ ret' = Some(validate_race_data(arg))
    /\ raised' = ""
    /\ UNCHANGED <<arg, disk, files, settings, instances, tables,
                   analysis_results, fastf1, loaded>>

----------------------------------------------------------------------------
(* crofty_commentary_generator.py: _call_groq_api *)

\* what an HTTP attempt comes to: a response with text, an exception of
\* requests (no connection, or an error status at raise_for_status), or a
\* response whose body lacks choices[0].message.content
Responds(text) == [kind |-> "text", text |-> text]

Fails(kind) == [kind |-> kind, text |-> ""]

\* the subclasses of requests.exceptions.RequestException among the outcomes
RequestExceptions == {"ConnectionError", "HTTPError"}

\* the for loop from attempt on, outcomes[i] being what attempt i - 1 comes
\* to, with a sleep after the last failure as well
RECURSIVE AttemptsFrom_AlwaysSleeping(_, _, _, _)
AttemptsFrom_AlwaysSleeping(outcomes, max_retries, attempt, sleeps) ==
    IF attempt >= max_retries
    THEN [value |-> None, raised |-> "", attempts |-> attempt, sleeps |-> sleeps]
    ELSE LET outcome == outcomes[attempt + 1]
         IN  IF outcome.kind = "text"
             THEN [value |-> Some(outcome.text), raised |-> "",
                   attempts |-> attempt + 1, sleeps |-> sleeps]
             ELSE IF outcome.kind \in RequestExceptions
             THEN AttemptsFrom_AlwaysSleeping(outcomes, max_retries, attempt + 1,
                                              Append(sleeps, 2 ^ attempt))
             ELSE [value |-> None, raised |-> outcome.kind,
                   attempts |-> attempt + 1, sleeps |-> sleeps]

\* the for loop from attempt on, outcomes[i] being what attempt i - 1 comes
\* to; sleeps are the time.sleep calls made so far
RECURSIVE AttemptsFrom(_, _, _, _)
AttemptsFrom(outcomes, max_retries, attempt, sleeps) ==
    IF attempt >= max_retries
    THEN [value |-> None, raised |-> "", attempts |-> attempt, sleeps |-> sleeps]
    ELSE LET outcome == outcomes[attempt + 1]
         IN  IF outcome.kind = "text"
             THEN [value |-> Some(outcome.text), raised |-> "",
                   attempts |-> attempt + 1, sleeps |-> sleeps]
             ELSE IF outcome.kind \in RequestExceptions
             THEN IF attempt < max_retries - 1
                  THEN AttemptsFrom(outcomes, max_retries, attempt + 1,
                                    Append(sleeps, 2 ^ attempt))
                  ELSE [value |-> None, raised |-> "",
                        attempts |-> attempt + 1, sleeps |-> sleeps]
             ELSE [value |-> None, raised |-> outcome.kind,
                   attempts |-> attempt + 1, sleeps |-> sleeps]

\* _call_groq_api(prompt, max_retries) against a service that answers the
\* attempts with outcomes
call_groq_api(outcomes, max_retries) ==
    AttemptsFrom(outcomes, max_retries, 0, <<>>)

\* ret holds the value returned (None as the empty list), the number of
\* requests.post calls and the sleeps
CallGroqApi ==
    \E call \in {call_groq_api(arg.outcomes, arg.max_retries)} :
       /\ op = "input"
       /\ op' = "_call_groq_api"
       /\ ret' = Some([value |-> call.value, attempts |-> call.attempts,
                       sleeps |-> call.sleeps])
       /\ raised' = call.raised
       /\ UNCHANGED <<arg, disk, files, settings, instances, tables,
                      analysis_results, fastf1, loaded>>

----------------------------------------------------------------------------
(* cli.py: handle_pipeline *)

\* the files handle_analyze leaves in <output_dir>/analysis with format 'all'
AnalysisFiles ==
    {[dir |-> "analysis", kind |-> "json"], [dir |-> "analysis", kind |-> "txt"]}

\* analysis_dir.glob("race_analysis_*.json") finds a file
HasAnalysisFile(present) ==
    \E f \in present : f.dir = "analysis" /\ f.kind = "json"

\* args.race or args.event, the options being None when not given
RaceIdentifier(args) == IF ~IsNone(args.race) THEN args.race ELSE args.event

\* the steps in order; args.codes are the values handle_collect,
\* handle_analyze and handle_comment return when called; a step that returns
\* non-zero is ignored and the next one runs
PipelineSteps_FailureIgnored(args, present) ==
    LET collect_ran == ~args.skip_collect
        analyze_ran == ~args.skip_analyze
        written     == IF analyze_ran /\ args.codes.analyze = 0
                       THEN AnalysisFiles ELSE {}
        has_file    == HasAnalysisFile(present \cup written)
        comment_ran == ~args.skip_comment /\ has_file
    IN  [code    |-> 0,
         ran     |-> (IF collect_ran THEN <<"collect">> ELSE <<>>)
                     \o (IF analyze_ran THEN <<"analyze">> ELSE <<>>)
                     \o (IF comment_ran THEN <<"comment">> ELSE <<>>),
         warned  |-> ~args.skip_comment /\ ~has_file,
         written |-> written]

\* the steps in order; args.codes are the values handle_collect,
\* handle_analyze and handle_comment return when called
PipelineSteps(args, present) ==
    LET collect_ran == ~args.skip_collect
        collect_ok  == ~collect_ran \/ args.codes.collect = 0
        analyze_ran == collect_ok /\ ~args.skip_analyze
        analyze_ok  == collect_ok /\ (~analyze_ran \/ args.codes.analyze = 0)
        written     == IF analyze_ran /\ args.codes.analyze = 0
                       THEN AnalysisFiles ELSE {}
        reached     == analyze_ok /\ ~args.skip_comment
        has_file    == HasAnalysisFile(present \cup written)
        comment_ran == reached /\ has_file
        comment_ok  == analyze_ok /\ (~comment_ran \/ args.codes.comment = 0)
    IN  [code    |-> IF comment_ok THEN 0 ELSE 1,
         ran     |-> (IF collect_ran THEN <<"collect">> ELSE <<>>)
                     \o (IF analyze_ran THEN <<"analyze">> ELSE <<>>)
                     \o (IF comment_ran THEN <<"comment">> ELSE <<>>),
         warned  |-> reached /\ ~has_file,
         written |-> written]

\* handle_pipeline: 1 at once when neither --race nor --event is given
handle_pipeline(args, present) ==
    IF IsNone(RaceIdentifier(args))
    THEN [code |-> 1, ran |-> <<>>, warned |-> FALSE, written |-> {}]
    ELSE PipelineSteps(args, present)

\* ret holds the value returned, the steps run and whether the warning
\* about the analysis files was printed
HandlePipeline ==
    \E run \in {handle_pipeline(arg, files)} :
       /\ op = "input"
       /\ op' = "handle_pipeline"
       /\ ret' = Some([code |-> run.code, ran |-> run.ran, warned |-> run.warned])
       /\ files' = files \cup run.written
       /\ raised' = ""
       /\ UNCHANGED <<arg, disk, settings, instances, tables,
                      analysis_results, fastf1, loaded>>

----------------------------------------------------------------------------
(* crofty_commentary_generator.py: process_race_data *)

TopIncidents == 3
TopPositionChanges == 3
TopViolations == 2
TopCollisions == 1

\* s[:n]
FirstOf(s, n) == SubSeq(s, 1, IF Len(s) < n THEN Len(s) ELSE n)

\* race_data.get(key, [])
ListOf(race_data, key) ==
    IF key \in DOMAIN race_data THEN race_data[key] ELSE <<>>

\* [inc for inc in incidents if 'COLLISION' in inc.get('message', '')]
Collisions(incidents) ==
    SelectSeq(incidents, LAMBDA inc : Contains(<<"COLLISION">>, inc.message))

Subjects(type, items) == Map(items, LAMBDA item : [type |-> type, item |-> item])

\* the generate_* calls in the order of the five blocks, one API call each
CommentaryCalls(race_data) ==
    LET incidents == ListOf(race_data, "incidents")
    IN  Subjects("incident", FirstOf(incidents, TopIncidents))
        \o Subjects("position_change",
                    FirstOf(ListOf(race_data, "major_position_changes"),
                            TopPositionChanges))
        \o Subjects("track_limits",
                    FirstOf(ListOf(race_data, "track_limits_violations"),
                            TopViolations))
        \o Subjects("collision", FirstOf(Collisions(incidents), TopCollisions))
        \o <<[type |-> "race_summary", item |-> race_data]>>

\* what _call_groq_api comes to: text (possibly empty), None, or an
\* exception that is not a request error
Returned(text) == [raised |-> "", value |-> Some(text)]

ReturnedNone == [raised |-> "", value |-> None]

Raised(name) == [raised |-> name, value |-> None]

\* if commentary['commentary']: neither None nor the empty string
HasText(answer) == ~IsNone(answer.value) /\ Val(answer.value) # ""

\* the calls made: all of them, or those up to the first that raises
CallsMade(calls, answers) ==
    LET raising == {i \in 1..Len(calls) : answers[i].raised # ""}
    IN  IF raising = {} THEN Len(calls) ELSE SetMin(raising)

\* process_race_data giving up at the first call without text
process_race_data_StopsAtNone(race_data, answers) ==
    LET calls  == CommentaryCalls(race_data)
        made   == CallsMade(calls, answers)
        silent == {i \in 1..made : ~HasText(answers[i])}
        last   == IF silent = {} THEN made ELSE SetMin(silent) - 1
    IN  [raised |-> IF made = 0 THEN "" ELSE answers[made].raised,
         value  |->
             [i \in 1..last |->
                 [type |-> calls[i].type, item |-> calls[i].item,
                  commentary |-> Val(answers[i].value)]]]

\* process_race_data against a service whose i-th call comes to answers[i]
process_race_data(race_data, answers) ==
    LET calls == CommentaryCalls(race_data)
        made  == CallsMade(calls, answers)
        kept  == SelectSeq([i \in 1..made |-> i], LAMBDA i : HasText(answers[i]))
    IN  [raised |-> IF made = 0 THEN "" ELSE answers[made].raised,
         value  |->
             Map(kept, LAMBDA i :
                 [type |-> calls[i].type, item |-> calls[i].item,
                  commentary |-> Val(answers[i].value)])]

\* ret holds the list returned, nothing when the call raised
ProcessRaceData ==
    \E processed \in {process_race_data(arg.race_data, arg.answers)} :
       /\ op = "input"
       /\ op' = "process_race_data"
       /\ ret' = IF processed.raised = "" THEN processed.value ELSE <<>>
       /\ raised' = processed.raised
       /\ UNCHANGED <<arg, disk, files, settings, instances, tables,
                      analysis_results, fastf1, loaded>>

----------------------------------------------------------------------------
(* Inputs *)

\* the largest number of rows of a generated lap table
MaxRows == 4
\* the largest number of rows of a generated race-control table
MaxMsgs == 3

\* the values of min_change the repository calls the scanner with
MinChanges == {1, 3, 5}

RaceNames == { <<"Hungarian", "Grand", "Prix">>, <<"Monaco", "Grand", "Prix">> }

\* a row of lap_data.csv; x holds the columns besides Driver, LapNumber,
\* Position and SpeedFL
LapRecord(d, n, p, s, x) ==
    [Driver |-> d, LapNumber |-> n, Position |-> p, SpeedFL |-> s,
     LapTime |-> x.LapTime, Sector1Time |-> x.Sector1Time,
     Sector2Time |-> x.Sector2Time, Sector3Time |-> x.Sector3Time,
     SpeedI1 |-> x.SpeedI1, SpeedI2 |-> x.SpeedI2, SpeedST |-> x.SpeedST,
     PitInTime |-> x.PitInTime, Compound |-> x.Compound,
     TyreLife |-> x.TyreLife]

\* the other columns, all cells empty
EmptyCells ==
    [LapTime |-> None, Sector1Time |-> None, Sector2Time |-> None,
     Sector3Time |-> None, SpeedI1 |-> None, SpeedI2 |-> None,
     SpeedST |-> None, PitInTime |-> None, Compound |-> None,
     TyreLife |-> None]

LapRow(d, n, p, s) == LapRecord(d, n, p, s, EmptyCells)

MsgRow(m, l) == [Message |-> m, Lap |-> l]

ResultRow(n, a) == [DriverNumber |-> n, Abbreviation |-> a]

\* the rows S as a table ordered by Code
TableOf(S, Code(_)) ==
    [i \in 1..Cardinality(S) |->
        CHOOSE r \in S : Cardinality({q \in S : Code(q) < Code(r)}) = i - 1]

DriverIndex(d) == IF d = "VER" THEN 1 ELSE 2

\* two row orders: lap by lap (drivers interleaved), and grouped by driver
\* with the drivers and each driver's laps in descending order
RowOrders(S) ==
    { TableOf(S, LAMBDA r : 10 * r.LapNumber + DriverIndex(r.Driver)),
      TableOf(S, LAMBDA r : 0 - (10 * DriverIndex(r.Driver) + r.LapNumber)) }

\* one row order: grouped by driver, each driver's laps ascending
Grouped(S) ==
    { TableOf(S, LAMBDA r : 10 * DriverIndex(r.Driver) + r.LapNumber) }

\* the lap tables with at most MaxRows rows, one row per (driver, lap) of Keys,
\* the cells of a row drawn from Cells
LapTables(Keys, Cells, Orders(_)) ==
    UNION { UNION { Orders({LapRow(k[1], k[2], c[k][1], c[k][2]) : k \in K})
                    : c \in [K -> Cells] }
            : K \in {X \in SUBSET Keys : Cardinality(X) <= MaxRows} }

SeqsUpTo(S, n) == UNION { [1..k -> S] : k \in 0..n }

FullResults == <<ResultRow(1, "VER"), ResultRow(44, "HAM")>>

CollisionText == <<"CAR", "1", "AND", "CAR", "44", "COLLISION">>

Directory(laps, msgs, results) ==
    [name            |-> <<"2024", "Hungarian", "Grand", "Prix">>,
     lap_data        |-> laps,
     race_control    |-> msgs,
     track_status    |-> Some(<<>>),
     session_results |-> results,
     weather_data    |-> Some(<<>>),
     session_status  |-> Some(<<>>)]

Constructed ==
    /\ lap_data = None
    /\ race_control = None
    /\ track_status = None
    /\ session_results = None
    /\ weather_data = None
    /\ session_status = None
    /\ analysis_results = EmptyDict
    /\ fastf1 = {}
    /\ op = "__init__"
    /\ arg = 0
    /\ ret = None
    /\ loaded = FALSE
    /\ raised = ""
    /\ files = {}
    /\ settings = None
    /\ instances = 0

\* lap tables that vary the positions, rows in several orders
PosKeys == {<<"VER", 1>>, <<"VER", 2>>, <<"VER", 3>>, <<"HAM", 1>>, <<"HAM", 2>>}
PosCells == {<<None, None>>, <<Some(1), None>>, <<Some(3), None>>, <<Some(6), None>>}

InitPos ==
    /\ Constructed
    /\ \E laps \in LapTables(PosKeys, PosCells, RowOrders) :
          disk = << Directory(Some(laps),
                              Some(<<MsgRow(Some(CollisionText), Some(2))>>),
                              Some(FullResults)) >>

\* lap tables for the message scans: a small one with telemetry, and one
\* with six changes of five or more positions
SmallLaps ==
    <<LapRow("VER", 1, Some(1), Some(300)), LapRow("VER", 2, Some(6), Some(270)),
      LapRow("VER", 3, Some(6), Some(280)), LapRow("HAM", 2, Some(2), Some(290))>>

BigLaps ==
    <<LapRow("VER", 1, Some(1), None), LapRow("VER", 2, Some(6), None),
      LapRow("VER", 3, Some(1), None), LapRow("VER", 4, Some(6), None),
      LapRow("HAM", 1, Some(8), None), LapRow("HAM", 2, Some(2), None),
      LapRow("HAM", 3, Some(8), None), LapRow("HAM", 4, Some(2), None)>>

\* race-control rows: texts in upper, lower and mixed case, with and without
\* car numbers and lap numbers, one cell without text
MsgRows ==
    { MsgRow(Some(CollisionText), Some(2)),
      MsgRow(Some(<<"CAR", "44", "collision">>), None),
      MsgRow(Some(<<"CAR", "99", "SPIN">>), Some(1)),
      MsgRow(Some(<<"YELLOW", "IN", "TRACK", "SECTOR", "4">>), Some(2)),
      MsgRow(Some(<<"CAR", "1", "TRACK", "LIMITS", "TURN", "4">>), Some(3)),
      MsgRow(Some(<<"CAR", "44", "OFF", "TRACK", "yellow">>), None),
      MsgRow(Some(<<"DRS", "ENABLED">>), Some(1)),
      MsgRow(None, Some(1)) }

AllCategories ==
    << MsgRow(Some(<<"YELLOW", "IN", "TRACK", "SECTOR", "4">>), Some(2)),
       MsgRow(Some(<<"CAR", "1", "TRACK", "LIMITS", "TURN", "4">>), Some(3)),
       MsgRow(Some(CollisionText), Some(2)) >>

InitMsg ==
    /\ Constructed
    /\ \/ \E msgs \in SeqsUpTo(MsgRows, MaxMsgs) :
             disk = << Directory(Some(SmallLaps), Some(msgs), Some(FullResults)) >>
       \/ \E msgs \in {AllCategories, <<>>} :
             disk = << Directory(Some(BigLaps), Some(msgs), Some(FullResults)) >>

\* lap tables for the correlator: which laps a driver has (cells fixed),
\* and what the laps around the incident hold (rows of one driver)
WindowKeys ==
    {<<"VER", 1>>, <<"VER", 2>>, <<"VER", 3>>, <<"VER", 4>>,
     <<"HAM", 1>>, <<"HAM", 4>>}
WindowCells == {<<Some(5), Some(300)>>}

AnomalyKeys == {<<"VER", 1>>, <<"VER", 2>>, <<"VER", 3>>}
AnomalyCells ==
    {<<None, None>>, <<Some(5), Some(300)>>, <<Some(5), Some(280)>>,
     <<Some(7), Some(279)>>, <<None, Some(300)>>, <<Some(7), None>>,
     <<Some(5), Some(290)>>}

\* incident and track-limits texts naming resolvable and unresolvable cars
CorrelatedTexts ==
    { CollisionText,
      <<"CAR", "1", "AND", "CAR", "99", "CONTACT">>,
      <<"CAR", "1", "TRACK", "LIMITS", "TURN", "4">>,
      <<"CAR", "99", "TRACK", "LIMITS">> }

IncidentLaps == {0, 1, 2, 4}

InitTel ==
    /\ Constructed
    /\ \/ \E laps \in LapTables(WindowKeys, WindowCells, Grouped),
             text \in CorrelatedTexts, l \in IncidentLaps,
             results \in {Some(FullResults), None} :
             disk = << Directory(Some(laps), Some(<<MsgRow(Some(text), Some(l))>>),
                                 results) >>
       \/ \E laps \in LapTables(AnomalyKeys, AnomalyCells, Grouped),
             text \in {CollisionText, <<"CAR", "1", "TRACK", "LIMITS", "TURN", "4">>} :
             disk = << Directory(Some(laps), Some(<<MsgRow(Some(text), Some(2))>>),
                                 Some(FullResults)) >>

\* race-control texts for the parsers: steward phrases in every order of two,
\* car numbers in several places, deleted times and turns
StewardPhrases ==
    { <<"NO", "FURTHER", "ACTION">>, <<"UNDER", "INVESTIGATION">>,
      <<"WILL", "BE", "INVESTIGATED">>, <<"DELETED">>, <<"NOTED">>,
      <<"noted">> }

StewardTexts ==
    { <<"CAR", "1", "SPIN">> \o a \o b :
         a \in StewardPhrases \cup {<<>>}, b \in StewardPhrases \cup {<<>>} }

CarTexts ==
    { <<"SPIN">>,
      <<"SAFETY", "CAR", "SPIN">>,
      <<"CAR", "1", "AND", "CAR", "1", "CONTACT">>,
      <<"car", "44", "SPIN", "TURN", "4">>,
      <<"INCIDENT", "CAR", "99", "CAR", "44", "CAR", "1">>,
      <<"CRASH", "CAR">>,
      CollisionText }

LimitTexts ==
    { <<"CAR", "44", "TRACK", "LIMITS", "TURN", "4", "LAP", "TIME", "1:23.456",
        "DELETED">>,
      <<"track", "limits", "TURN", "4">>,
      <<"CAR", "99", "TIME", "DELETED">>,
      <<"CAR", "1", "AND", "CAR", "44", "LAP", "DELETED", "TURN", "1", "TURN", "4">>,
      <<"car", "1", "TRACK", "LIMITS", "turn", "4", "TIME", "44">>,
      <<"TRACK", "CLEAR">> }

ParsedRows ==
    { MsgRow(Some(text), l) : text \in CarTexts \cup LimitTexts,
                              l \in {None, Some(2)} }

InitTxt ==
    /\ Constructed
    /\ \E msgs \in { <<MsgRow(Some(text), Some(2))>> : text \in StewardTexts }
                   \cup { <<a>> : a \in ParsedRows }
                   \cup { <<a, b>> : a \in ParsedRows, b \in ParsedRows } :
          disk = << Directory(Some(SmallLaps), Some(msgs), Some(FullResults)) >>

\* lap tables for the pit-stop scan: laps with and without a pit-in time and
\* a position, the compound and the tyre age given by the lap number
PitKeys == {<<"VER", 1>>, <<"VER", 2>>, <<"VER", 3>>, <<"HAM", 2>>}
PitCells ==
    {<<Some(3), None>>, <<Some(5), None>>, <<Some(5), Some("0:20:01")>>,
     <<None, None>>}

PitRow(d, n, p, t) ==
    LapRecord(d, n, p, None,
              [EmptyCells EXCEPT !.PitInTime = t,
                                 !.Compound = Some(IF n = 2 THEN "HARD" ELSE "SOFT"),
                                 !.TyreLife = Some(10 + n)])

PitTables ==
    UNION { UNION { RowOrders({PitRow(k[1], k[2], c[k][1], c[k][2]) : k \in K})
                    : c \in [K -> PitCells] }
            : K \in SUBSET PitKeys }

InitPit ==
    /\ Constructed
    /\ \E laps \in PitTables :
          disk = << Directory(Some(laps),
                              Some(<<MsgRow(Some(CollisionText), Some(2))>>),
                              Some(FullResults)) >>

\* inputs for the channel-data fetch: lap tables with and without drops, two
\* incidents in a row
FetchKeys == {<<"VER", 1>>, <<"VER", 2>>, <<"VER", 3>>, <<"HAM", 2>>}
FetchCells == {<<Some(5), Some(300)>>, <<Some(7), Some(270)>>}

FetchMessages ==
    { << MsgRow(Some(CollisionText), Some(2)),
         MsgRow(Some(<<"CAR", "44", "SPIN">>), Some(3)) >>,
      << MsgRow(Some(<<"CAR", "1", "AND", "CAR", "99", "CONTACT">>), Some(1)) >> }

InitFch ==
    /\ Constructed
    /\ \E laps \in LapTables(FetchKeys, FetchCells, Grouped),
          msgs \in FetchMessages :
          disk = << Directory(Some(laps), Some(msgs), Some(FullResults)) >>

\* inputs for the report: lap tables with position changes, with pit stops
\* and with none, messages of every category, and weather of two samples
WeatherRow(t, rain) ==
    [AirTemp |-> t, TrackTemp |-> t + 15, Humidity |-> 40, Pressure |-> 1000,
     WindSpeed |-> 2, Rainfall |-> rain]

WeatherTables == { <<>>, <<WeatherRow(25, FALSE), WeatherRow(28, TRUE)>> }

PitLaps ==
    <<PitRow("VER", 1, Some(3), None), PitRow("VER", 2, Some(5), Some("0:20:01")),
      PitRow("VER", 3, Some(5), None), PitRow("HAM", 2, Some(3), None)>>

PitGapLaps ==
    <<PitRow("VER", 2, Some(5), Some("0:20:01")), PitRow("VER", 3, Some(5), None)>>

\* changes of 5, 2 and 3 positions and one pit stop
RaceLaps ==
    <<PitRow("VER", 1, Some(1), None), PitRow("VER", 2, Some(6), Some("0:20:01")),
      PitRow("VER", 3, Some(4), None), PitRow("HAM", 1, Some(5), None),
      PitRow("HAM", 2, Some(2), None)>>

ReportLaps == {SmallLaps, PitLaps, PitGapLaps, RaceLaps, <<>>}

ReportMessages ==
    { AllCategories, <<>>,
      << MsgRow(Some(CollisionText), Some(2)),
         MsgRow(Some(<<"CAR", "44", "SPIN">>), Some(3)) >> }

InitGen ==
    /\ Constructed
    /\ \E laps \in ReportLaps, msgs \in ReportMessages,
          results \in {Some(FullResults), None},
          weather \in WeatherTables :
          disk = << [Directory(Some(laps), Some(msgs), results)
                        EXCEPT !.weather_data = Some(weather)] >>

\* inputs for the runs: two race directories, each complete or with one of
\* its six files missing, under a data directory that holds both, one or none
Without(dir, i) == IF i = 0 THEN dir ELSE [dir EXCEPT ![CsvFiles[i]] = None]

Hungary == Directory(Some(RaceLaps), Some(AllCategories), Some(FullResults))

Monaco ==
    [Directory(Some(PitLaps), Some(<<>>), Some(<<ResultRow(1, "VER")>>))
        EXCEPT !.name = <<"2023", "Monaco", "Grand", "Prix">>,
               !.track_status = Some(<<[Status |-> 1]>>),
               !.weather_data = Some(<<WeatherRow(25, FALSE)>>),
               !.session_status = Some(<<[Status |-> "Started"]>>)]

InitRun ==
    /\ Constructed
    /\ \E h \in 0..Len(CsvFiles), m \in 0..Len(CsvFiles) :
          disk \in { <<Without(Hungary, h), Without(Monaco, m)>>,
                     <<Without(Hungary, h)>>, <<>> }

\* lap tables for the lap comparison: two laps of one driver with a position
\* change of three, the previous lap at the base values, the current lap's
\* times and speeds around the thresholds, missing, or no duration at all
BaseCells ==
    [EmptyCells EXCEPT !.LapTime = Some("0:01:30.000"),
                       !.Sector1Time = Some("0:00:30.000"),
                       !.Sector2Time = Some("0:00:30.000"),
                       !.Sector3Time = Some("0:00:30.000"),
                       !.SpeedI1 = Some(300), !.SpeedI2 = Some(300),
                       !.SpeedST = Some(300)]

PrevLap == LapRecord("VER", 1, Some(1), Some(300), BaseCells)
CurrLap == LapRecord("VER", 2, Some(4), Some(300), BaseCells)

LapTimeCells ==
    {Some("0:01:30.000"), Some("0:01:32.000"), Some("0:01:32.001"),
     Some("0:01:27.999"), Some("1:3x"), None}
SectorCells ==
    {Some("0:00:30.000"), Some("0:00:30.500"), Some("0:00:30.501"),
     Some("0:00:29.499"), Some("1:3x"), None}
SpeedCells == {Some(300), Some(315), Some(316), Some(284), None}

ComparedLaps ==
    { << [PrevLap EXCEPT !.LapTime = pt],
         [CurrLap EXCEPT !.LapTime = ct, !.Sector1Time = s1, !.SpeedI1 = v1] >> :
         pt \in {Some("0:01:30.000"), Some("1:3x"), None},
         ct \in LapTimeCells, s1 \in SectorCells, v1 \in SpeedCells }
    \cup
    { << [PrevLap EXCEPT ![f] = pv], [CurrLap EXCEPT ![f] = cv] >> :
         f \in {"Sector1Time", "Sector2Time", "Sector3Time"},
         pv \in {Some("0:00:30.000"), Some("1:3x"), None}, cv \in SectorCells }
    \cup
    { << PrevLap, [CurrLap EXCEPT ![f] = cv] >> :
         f \in {"SpeedI2", "SpeedFL", "SpeedST"}, cv \in SpeedCells }
    \cup
    { << PrevLap,
         [CurrLap EXCEPT !.LapTime = Some("0:01:32.001"),
                         !.Sector1Time = Some("0:00:30.501"),
                         !.Sector2Time = Some("0:00:29.499"),
                         !.Sector3Time = Some("0:00:30.501"),
                         !.SpeedI1 = Some(316), !.SpeedI2 = Some(284),
                         !.SpeedFL = Some(316), !.SpeedST = Some(316)] >> }

InitCmp ==
    /\ Constructed
    /\ \E laps \in ComparedLaps :
          disk = << Directory(Some(laps),
                              Some(<<MsgRow(Some(CollisionText), Some(2))>>),
                              Some(FullResults)) >>

\* the calls of the runs that load a race and scan it
Scan ==
    \/ \E race_name \in RaceNames : LoadRaceData(race_name)
    \/ AnalyzeIncidents
    \/ \E min_change \in MinChanges : AnalyzePositionChanges(min_change)
    \/ AnalyzeTrackLimitsViolations
    \/ AnalyzeYellowFlags
    \/ AnalyzePitStopStrategies
    \/ IdentifyCommentarySegments

\* and of the runs that also build the report
Next ==
    \/ Scan
    \/ AnalyzeRaceOverview
    \/ AnalyzeWeatherImpact
    \/ GenerateStatistics
    \/ GenerateComprehensiveAnalysis

SpecPos == InitPos /\ [][Scan]_vars

SpecMsg == InitMsg /\ [][Scan]_vars

SpecTel == InitTel /\ [][Scan]_vars

SpecTxt == InitTxt /\ [][Scan]_vars

SpecPit == InitPit /\ [][Scan]_vars

SpecCmp == InitCmp /\ [][Scan]_vars

SpecFch == InitFch /\ [][Scan]_vars

SpecGen == InitGen /\ [][Next]_vars

\* keyword arguments: one or two settings, known and unknown
SettingPairs ==
    {<<"log_level", "DEBUG">>, <<"log_level", "INFO">>,
     <<"min_position_change", 3>>, <<"min_position_change", 5>>,
     <<"default_fps", 30>>, <<"default_fps", 60>>,
     <<"colour", "red">>}

Kwargs ==
    {<<p>> : p \in SettingPairs}
        \cup {<<pq[1], pq[2]>> :
                 pq \in {x \in SettingPairs \X SettingPairs : x[1][1] # x[2][1]}}

InitCfg == Constructed /\ disk = <<>>

Configure ==
    \/ GetSettings
    \/ \E kwargs \in Kwargs : UpdateSettings(kwargs)

SpecCfg == InitCfg /\ [][Configure]_vars

\* no analyzer in use: the state around a call of a function of the package
NoAnalyzerState ==
    /\ disk = <<>>
    /\ lap_data = None
    /\ race_control = None
    /\ track_status = None
    /\ session_results = None
    /\ weather_data = None
    /\ session_status = None
    /\ analysis_results = EmptyDict
    /\ fastf1 = {}
    /\ loaded = FALSE
    /\ raised = ""
    /\ settings = None
    /\ instances = 0
    /\ ret = None

NoAnalyzer == NoAnalyzerState /\ files = {}

\* frames of at most MaxFrameRows rows over the columns Driver and LapTime,
\* with missing cells, text, numbers, and strings that parse
MaxFrameRows == 2

FrameColumns == {<<>>, <<"Driver">>, <<"LapTime">>, <<"Driver", "LapTime">>}

FrameCells(c) ==
    IF c = "Driver" THEN {None, Text("VER"), Text("7"), Number("7")}
    ELSE {None, Text("NaT"), Text("2024-01-01"), Text("x")}

\* the rows over columns: each cell drawn from the cells of its column
RowCells(columns) ==
    LET keys == {columns[j] : j \in 1..Len(columns)}
    IN  {cells \in [keys -> UNION {FrameCells(c) : c \in keys}] :
            \A c \in keys : cells[c] \in FrameCells(c)}

Frames ==
    UNION { UNION { { Frame(columns,
                            [i \in 1..n |-> [label |-> i - 1, cells |-> cells[i]]]) :
                      cells \in [1..n -> RowCells(columns)] }
                    : n \in 0..MaxFrameRows }
            : columns \in FrameColumns }

InitCln ==
    /\ NoAnalyzer
    /\ op = "input"
    /\ \E df \in Frames, ignore_accepted \in BOOLEAN :
          arg = [df |-> df, ignore_accepted |-> ignore_accepted, calls |-> 0]

Clean == CleanDataframe \/ CleanDataframeAgain

SpecCln == InitCln /\ [][Clean]_vars

\* data dicts: each required key present or not, the event with and without
\* name and date, results of 0 to 20 rows, lap tables of up to MaxLapCells
\* rows with lap numbers on both sides of the two limits
MaxLapCells == 2

EventInfos ==
    UNION { [keys -> {"", "Hungarian Grand Prix"}] :
            keys \in SUBSET {"event_name", "date"} }

ResultFrames == {NotAFrame} \cup {DataFrame(n, None) : n \in {0, 3, 9, 10, 20}}

LapCells == {None, Some(1), Some(9), Some(10), Some(100), Some(101)}

LapFrames ==
    {NotAFrame, DataFrame(0, None), DataFrame(2, None)}
        \cup {DataFrame(Len(laps), Some(laps)) : laps \in SeqsUpTo(LapCells, MaxLapCells)}

\* the dict with the values given, a key left out when its value is None
DataDict(event_info, results, laps) ==
    LET value == [key \in {"event_info", "session_results", "lap_data"} |->
                     CASE key = "event_info"      -> event_info
                       [] key = "session_results" -> results
                       [] key = "lap_data"        -> laps]
    IN  [key \in {k \in DOMAIN value : ~IsNone(value[k])} |-> Val(value[key])]

Optional(S) == {None} \cup {Some(x) : x \in S}

RaceData ==
    {DataDict(e, r, l) : e \in Optional(EventInfos), r \in Optional(ResultFrames),
                         l \in Optional(LapFrames)}

InitVal ==
    /\ NoAnalyzer
    /\ op = "input"
    /\ arg \in RaceData

SpecVal == InitVal /\ [][ValidateRaceData]_vars

\* calls with up to MaxRetries attempts allowed, each attempt answered with
\* text, with one of the two request errors or with a malformed body
MaxRetries == 3

AttemptOutcomes ==
    {Responds("INCREDIBLE"), Fails("ConnectionError"), Fails("HTTPError"),
     Fails("KeyError")}

InitApi ==
    /\ NoAnalyzer
    /\ op = "input"
    /\ \E max_retries \in 0..MaxRetries :
          \E outcomes \in [1..max_retries -> AttemptOutcomes] :
             arg = [max_retries |-> max_retries, outcomes |-> outcomes]

SpecApi == InitApi /\ [][CallGroqApi]_vars

\* pipeline calls: with and without --race and --event, every combination
\* of the skip options and of the values the steps return, started with
\* and without an analysis file of an earlier run
PipelineArgs ==
    [race : {None, Some("Hungary")}, event : {None, Some("Hungarian Grand Prix")},
     skip_collect : BOOLEAN, skip_analyze : BOOLEAN, skip_comment : BOOLEAN,
     skip_visualize : BOOLEAN,
     codes : [collect : {0, 1}, analyze : {0, 1}, comment : {0, 1}]]

InitPip ==
    /\ NoAnalyzerState
    /\ files \in {{}, {[dir |-> "analysis", kind |-> "json"]}}
    /\ op = "input"
    /\ arg \in PipelineArgs

SpecPip == InitPip /\ [][HandlePipeline]_vars

\* reports with more and fewer items than the five blocks take, and
\* services that answer up to MaxSilent of the calls without text
MaxCalls == TopIncidents + TopPositionChanges + TopViolations + TopCollisions + 1

MaxSilent == 2

Incident(text, l) == [message |-> text, lap |-> l]

IncidentLists ==
    { <<>>,
      << Incident(<<"CAR", "44", "SPIN">>, 3) >>,
      << Incident(CollisionText, 2), Incident(<<"CAR", "44", "SPIN">>, 3) >>,
      << Incident(<<"CAR", "44", "SPIN">>, 1), Incident(<<"CAR", "1", "SPIN">>, 2),
         Incident(<<"CAR", "44", "SPIN">>, 3), Incident(CollisionText, 4) >> }

ChangeLists ==
    { [i \in 1..n |-> [driver |-> "VER", lap |-> i + 1]] : n \in {0, 2, 4} }

ViolationLists ==
    { [i \in 1..n |-> [driver_abbreviation |-> "HAM", lap |-> i]] : n \in {0, 1, 3} }

Reports ==
    { [incidents |-> i, major_position_changes |-> c, track_limits_violations |-> v] :
        i \in IncidentLists, c \in ChangeLists, v \in ViolationLists }
    \cup { EmptyDict }

Silences == {ReturnedNone, Returned(""), Raised("KeyError")}

Answers ==
    { [i \in 1..MaxCalls |-> IF i \in DOMAIN quiet THEN quiet[i] ELSE Returned("INCREDIBLE")] :
        quiet \in UNION { [at -> Silences] :
                          at \in {x \in SUBSET (1..MaxCalls) : Cardinality(x) <= MaxSilent} } }

InitCom ==
    /\ NoAnalyzer
    /\ op = "input"
    /\ \E race_data \in Reports, answers \in Answers :
          arg = [race_data |-> race_data, answers |-> answers]

SpecCom == InitCom /\ [][ProcessRaceData]_vars

Run ==
    \/ \E race_name \in RaceNames : LoadRaceData(race_name)
    \/ \E race_name \in RaceNames : Main(race_name, OutputDir)
    \/ \E race_name \in RaceNames : HandleAnalyze(race_name)

SpecRun == InitRun /\ [][Run]_vars

Init == InitPos \/ InitMsg \/ InitTel \/ InitTxt \/ InitPit \/ InitCmp \/ InitFch \/ InitGen

Spec == Init /\ [][Next]_vars

----------------------------------------------------------------------------
(* Properties of analyze_position_changes *)

LapTable == IF IsNone(lap_data) THEN <<>> ELSE Val(lap_data)

\* the rows of the loaded lap table
LapRowSet == {LapTable[i] : i \in 1..Len(LapTable)}

\* the index of the driver's first row in the lap table
FirstRow(driver) == SetMin({i \in 1..Len(LapTable) : LapTable[i].Driver = driver})

PositionCall == op = "analyze_position_changes"

\* C2: every record returned by analyze_position_changes(min_change = m)
\* has |change| >= m
C2_ChangeAtLeastMin ==
    PositionCall => \A i \in 1..Len(ret) : Abs(ret[i].change) >= arg

\* a call with m = 3 that reports a change of exactly 3 and leaves out a
\* smaller change of the same table
C2_Witness ==
    /\ PositionCall
    /\ arg = 3
    /\ \E i \in 1..Len(ret) : Abs(ret[i].change) = 3
    /\ \E a, b \in LapRowSet :
          /\ a.Driver = b.Driver
          /\ b.LapNumber = a.LapNumber + 1
          /\ ~IsNone(a.Position) /\ ~IsNone(b.Position)
          /\ Abs(Val(a.Position) - Val(b.Position)) = 2

\* the records reported for the driver's lap n
RecordsFor(driver, n) ==
    {i \in 1..Len(ret) : ret[i].driver = driver /\ ret[i].lap = n}

\* rows a, b are one driver's laps with consecutive lap numbers, positions present
ConsecutivePair(a, b) ==
    /\ a.Driver = b.Driver
    /\ b.LapNumber = a.LapNumber + 1
    /\ ~IsNone(a.Position)
    /\ ~IsNone(b.Position)

\* C3: exactly one record per pair of laps with consecutive lap numbers whose
\* positions differ by at least m, none for any other pair of laps, and the
\* record holds lap = n, from_position, to_position, change = p_prev - p_cur
C3_OneRecordPerConsecutivePair ==
    PositionCall =>
        /\ \A a, b \in LapRowSet :
              ConsecutivePair(a, b) =>
                 Cardinality(RecordsFor(b.Driver, b.LapNumber)) =
                    IF Abs(Val(a.Position) - Val(b.Position)) >= arg
                    THEN 1 ELSE 0
        /\ \A i \in 1..Len(ret) :
              \E a, b \in LapRowSet :
                 /\ ConsecutivePair(a, b)
                 /\ b.Driver = ret[i].driver
                 /\ b.LapNumber = ret[i].lap
                 /\ ret[i].from_position = Val(a.Position)
                 /\ ret[i].to_position = Val(b.Position)
                 /\ ret[i].change = Val(a.Position) - Val(b.Position)

\* the driver's lap numbers have no gap
NoGap(driver) ==
    \A a, b \in LapRowSet :
        (a.Driver = driver /\ b.Driver = driver /\ a.LapNumber < b.LapNumber)
        => \A n \in a.LapNumber..b.LapNumber :
              \E c \in LapRowSet : c.Driver = driver /\ c.LapNumber = n

\* C3 on the lap tables in which no driver skips a lap number
C3_HoldsWithoutGaps ==
    (\A r \in LapRowSet : NoGap(r.Driver)) => C3_OneRecordPerConsecutivePair

\* record a is detected before record b
DetectedBefore(a, b) ==
    \/ FirstRow(a.driver) < FirstRow(b.driver)
    \/ a.driver = b.driver /\ a.lap < b.lap

\* C4: the list is sorted by |change| descending, and records with equal
\* |change| keep their detection order (drivers by first appearance in the
\* lap table, a driver's records by increasing lap number)
C4_SortedStable ==
    PositionCall =>
        \A i, j \in 1..Len(ret) :
            i < j =>
               /\ Abs(ret[i].change) >= Abs(ret[j].change)
               /\ Abs(ret[i].change) = Abs(ret[j].change)
                     => DetectedBefore(ret[i], ret[j])

\* two drivers with changes of the same size, the driver whose rows come
\* second in the alphabet first in the table
C4_Witness ==
    /\ PositionCall
    /\ Len(ret) = 2
    /\ ret[1].driver = "HAM"
    /\ ret[2].driver = "VER"
    /\ Abs(ret[1].change) = Abs(ret[2].change)
    /\ ret[1].change # ret[2].change

----------------------------------------------------------------------------
(* Properties of analyze_incidents *)

MessageTable == IF IsNone(race_control) THEN <<>> ELSE Val(race_control)

\* the text has one of the six keywords, whatever the case of its letters
MentionsIncident(row) ==
    /\ ~IsNone(row.Message)
    /\ \E kw \in { <<"INCIDENT">>, <<"CRASH">>, <<"COLLISION">>,
                   <<"OFF", "TRACK">>, <<"SPIN">>, <<"CONTACT">> } :
          \E i \in 1..Len(Val(row.Message)) :
             /\ i + Len(kw) - 1 <= Len(Val(row.Message))
             /\ \A k \in 1..Len(kw) :
                   UpperToken(Val(row.Message)[i + k - 1]) = kw[k]

\* the indices of the matching messages, and the k-th of them in table order
IncidentIndices == {i \in 1..Len(MessageTable) : MentionsIncident(MessageTable[i])}
Kth(S, k) == CHOOSE x \in S : Cardinality({y \in S : y < x}) = k - 1

IncidentCall == op = "analyze_incidents"

\* C1: analyze_incidents returns one incident per message that has a keyword
\* (case-insensitively), none for other messages, in table order
C1_OneIncidentPerMatch ==
    IncidentCall =>
        /\ Len(ret) = Cardinality(IncidentIndices)
        /\ \A k \in 1..Len(ret) :
              ret[k].message = Val(MessageTable[Kth(IncidentIndices, k)].Message)

\* a scan that keeps a lower-case match, skips a message in between and
\* keeps a later upper-case match
C1_Witness ==
    /\ IncidentCall
    /\ Len(ret) = 2
    /\ Len(MessageTable) = 3
    /\ ret[1].message = <<"CAR", "44", "collision">>
    /\ ret[2].message = <<"CAR", "99", "SPIN">>
    /\ IncidentIndices = {1, 3}

\* C9: a matching message without a lap number yields an incident with
\* lap = None and an empty telemetry analysis; it is not dropped
C9_NullLapRetained ==
    IncidentCall =>
        /\ Len(ret) = Cardinality(IncidentIndices)
        /\ \A k \in 1..Len(ret) :
              IsNone(MessageTable[Kth(IncidentIndices, k)].Lap) =>
                 /\ ret[k].lap = None
                 /\ DOMAIN ret[k].telemetry_analysis = {}

\* a message naming a resolvable car, without a lap number, between two
\* incidents that have one
C9_Witness ==
    /\ IncidentCall
    /\ Len(ret) = 3
    /\ ret[1].lap # None
    /\ ret[2].lap = None
    /\ ret[2].drivers = <<"44">>
    /\ ret[3].lap # None
    /\ DOMAIN ret[1].telemetry_analysis # {}

----------------------------------------------------------------------------
(* Properties of identify_commentary_segments *)

SegmentCall == op = "identify_commentary_segments"

\* the segments of one priority, in the order of the returned list
Tier(p) == SelectSeq(ret, LAMBDA x : x.priority = p)

\* a is b with some elements left out
RECURSIVE IsSubsequence(_, _)
IsSubsequence(a, b) ==
    IF a = <<>> THEN TRUE
    ELSE IF b = <<>> THEN FALSE
    ELSE IF Head(a) = Head(b) THEN IsSubsequence(Tail(a), Tail(b))
    ELSE IsSubsequence(a, Tail(b))

\* the category lists the segments are built from
IncidentList == analyze_incidents(fastf1, race_control, lap_data, session_results)
MajorChangeList == analyze_position_changes(lap_data, MajorMinChange)
TrackLimitsList ==
    analyze_track_limits_violations(race_control, lap_data, session_results)
YellowFlagList == analyze_yellow_flags(race_control)

\* C5: priorities are non-decreasing along the returned list, and the
\* segments of one priority keep the order of their category list
C5_PriorityOrder ==
    SegmentCall =>
        /\ \A i, j \in 1..Len(ret) : i < j => ret[i].priority <= ret[j].priority
        /\ IsSubsequence(Tier(1), Map(IncidentList, CollisionSegment))
        /\ IsSubsequence(Tier(2), Map(MajorChangeList, PositionChangeSegment))
        /\ IsSubsequence(Tier(3), Map(TrackLimitsList, TrackLimitsSegment))
        /\ IsSubsequence(Tier(4), Map(YellowFlagList, YellowFlagSegment))

\* a yellow flag and a track-limits message that precede a collision in the
\* table, with position changes: all four priorities in one list
C5_Witness ==
    /\ SegmentCall
    /\ Len(Tier(1)) = 1
    /\ Len(Tier(2)) = TopChanges
    /\ Len(Tier(3)) = 1
    /\ Len(Tier(4)) = 1
    /\ MessageTable[1].Message = Some(<<"YELLOW", "IN", "TRACK", "SECTOR", "4">>)
    /\ MessageTable[3].Message = Some(CollisionText)

\* the incident's text has COLLISION, whatever the case of its letters
MentionsCollision(inc) ==
    \E i \in 1..Len(inc.message) : UpperToken(inc.message[i]) = "COLLISION"

\* the first five, or all when there are fewer
FirstFive(s) == [i \in 1..(IF Len(s) < 5 THEN Len(s) ELSE 5) |-> s[i]]

\* C6: the list holds exactly one priority-1 segment per incident matched
\* on COLLISION (case-insensitively), the at most five largest position
\* changes as priority 2, one priority-3 segment per track-limits violation
\* and one priority-4 segment per YELLOW message
C6_SegmentContents ==
    SegmentCall =>
        /\ Tier(1) = Map(SelectSeq(IncidentList, MentionsCollision),
                         CollisionSegment)
        /\ Tier(2) = Map(FirstFive(MajorChangeList), PositionChangeSegment)
        /\ Tier(3) = Map(TrackLimitsList, TrackLimitsSegment)
        /\ Tier(4) = Map(YellowFlagList, YellowFlagSegment)
        /\ Len(ret) = Len(Tier(1)) + Len(Tier(2)) + Len(Tier(3)) + Len(Tier(4))

\* C6 on the race-control tables whose collision messages are in upper case
C6_HoldsForUpperCase ==
    (\A i \in 1..Len(IncidentList) :
        MentionsCollision(IncidentList[i]) => IsCollision(IncidentList[i]))
    => C6_SegmentContents

----------------------------------------------------------------------------
(* Properties of the telemetry correlator *)

TrackLimitsCall == op = "analyze_track_limits_violations"

HasLap(driver, n) ==
    \E r \in LapRowSet : r.Driver = driver /\ r.LapNumber = n

LapOfDriver(driver, n) ==
    CHOOSE r \in LapRowSet : r.Driver = driver /\ r.LapNumber = n

\* the car number resolves to the driver code in the session results
Resolves(car_number, driver) ==
    /\ ~IsNone(session_results)
    /\ \E i \in 1..Len(Val(session_results)) :
          /\ Val(session_results)[i].DriverNumber = IntOf(car_number)
          /\ Val(session_results)[i].Abbreviation = driver

DriverCodes == {"VER", "HAM"}

\* the lap numbers max(1, l - radius) .. l + radius the driver has a record of
ExpectedLaps(driver, l, radius) ==
    {n \in (IF l - radius < 1 THEN 1 ELSE l - radius)..(l + radius) :
        HasLap(driver, n)}

\* the lap numbers of the driver's per-lap map, none when there is no entry
MapLaps(telemetry_analysis, driver) ==
    IF driver \in DOMAIN telemetry_analysis
    THEN DOMAIN telemetry_analysis[driver].lap_data
    ELSE {}

\* C7: for an incident (radius 2) or a track-limits violation (radius 1) on
\* lap L >= 1 and a resolved driver, the per-lap map holds exactly the lap
\* numbers max(1, L - radius) .. L + radius the driver has a record of
C7_WindowLaps ==
    /\ IncidentCall =>
          \A k \in 1..Len(ret) :
             \A i \in 1..Len(ret[k].drivers), d \in DriverCodes :
                (/\ ~IsNone(ret[k].lap)
                 /\ Val(ret[k].lap) >= 1
                 /\ Resolves(ret[k].drivers[i], d))
                => MapLaps(ret[k].telemetry_analysis, d)
                      = ExpectedLaps(d, Val(ret[k].lap), 2)
    /\ TrackLimitsCall =>
          \A k \in 1..Len(ret) :
             \A d \in DriverCodes :
                (/\ ~IsNone(ret[k].lap)
                 /\ Val(ret[k].lap) >= 1
                 /\ ~IsNone(ret[k].driver_number)
                 /\ Resolves(Val(ret[k].driver_number), d))
                => /\ DOMAIN ret[k].telemetry_analysis = {"lap_data", "analysis"}
                   /\ DOMAIN ret[k].telemetry_analysis.lap_data
                         = ExpectedLaps(d, Val(ret[k].lap), 1)

\* an incident on lap 1 of a driver with laps 1 to 4: the map holds laps 1
\* to 3, nothing below lap 1 and not lap 4
C7_Witness ==
    /\ IncidentCall
    /\ Len(ret) = 1
    /\ ret[1].lap = Some(1)
    /\ \A n \in 1..4 : HasLap("VER", n)
    /\ "VER" \in DOMAIN ret[1].telemetry_analysis
    /\ DOMAIN ret[1].telemetry_analysis["VER"].lap_data = {1, 2, 3}

\* the driver codes the incident's participants resolve to
ResolvedDrivers(inc) ==
    {d \in DriverCodes :
        \E i \in 1..Len(inc.drivers) : Resolves(inc.drivers[i], d)}

\* C8 as stated: for an incident with a lap number (L >= 1) the telemetry
\* analysis has one entry for every participant that resolves and none for
\* one that does not
C8_EntryPerResolvedParticipant ==
    IncidentCall =>
        \A k \in 1..Len(ret) :
            (~IsNone(ret[k].lap) /\ Val(ret[k].lap) >= 1) =>
                DOMAIN ret[k].telemetry_analysis = ResolvedDrivers(ret[k])

\* C8 amended: for an incident with lap number L >= 1 the telemetry analysis
\* has one entry for every participant that resolves to a driver with at
\* least one lap record in max(1, L - 2) .. L + 2, and no other entry (it is
\* empty for a lap number of 0)
C8_EntryPerResolvedParticipantWithLaps ==
    IncidentCall =>
        \A k \in 1..Len(ret) :
            ~IsNone(ret[k].lap) =>
                /\ DOMAIN ret[k].telemetry_analysis =
                      {d \in ResolvedDrivers(ret[k]) :
                          /\ Val(ret[k].lap) # 0
                          /\ ExpectedLaps(d, Val(ret[k].lap), 2) # {}}
                /\ \A d \in DOMAIN ret[k].telemetry_analysis :
                      Resolves(ret[k].telemetry_analysis[d].driver_number, d)

\* two participants that both resolve, one of them without a lap record in
\* the window: one entry
C8_Witness ==
    /\ IncidentCall
    /\ Len(ret) = 1
    /\ ret[1].lap = Some(1)
    /\ ResolvedDrivers(ret[1]) = {"VER", "HAM"}
    /\ HasLap("HAM", 4)
    /\ DOMAIN ret[1].telemetry_analysis = {"VER"}

Kinds(anomalies) == {anomalies[i].kind : i \in 1..Len(anomalies)}

\* the anomaly list of the driver's entry, empty when there is no entry
AnomaliesOf(telemetry_analysis, driver) ==
    IF driver \in DOMAIN telemetry_analysis
    THEN telemetry_analysis[driver].analysis.anomalies
    ELSE <<>>

HasSpeed(driver, n) ==
    HasLap(driver, n) /\ ~IsNone(LapOfDriver(driver, n).SpeedFL)
HasPosition(driver, n) ==
    HasLap(driver, n) /\ ~IsNone(LapOfDriver(driver, n).Position)
SpeedOn(driver, n) == Val(LapOfDriver(driver, n).SpeedFL)
PositionOn(driver, n) == Val(LapOfDriver(driver, n).Position)

\* C10: for a resolved driver of an incident on lap L the anomaly list has a
\* speed-drop entry iff the driver has a finish-line speed on laps L - 1 and
\* L and speed(L - 1) - speed(L) > 20, and a position-drop entry iff the
\* driver has a position on both laps and position(L) - position(L - 1) > 0
C10_AnomalyThresholds ==
    IncidentCall =>
        \A k \in 1..Len(ret) :
            \A d \in ResolvedDrivers(ret[k]) :
                (~IsNone(ret[k].lap) /\ Val(ret[k].lap) >= 1) =>
                    LET l == Val(ret[k].lap)
                        kinds == Kinds(AnomaliesOf(ret[k].telemetry_analysis, d))
                    IN  /\ "speed_drop" \in kinds <=>
                              /\ HasSpeed(d, l - 1)
                              /\ HasSpeed(d, l)
                              /\ SpeedOn(d, l - 1) - SpeedOn(d, l) > 20
                        /\ "position_drop" \in kinds <=>
                              /\ HasPosition(d, l - 1)
                              /\ HasPosition(d, l)
                              /\ PositionOn(d, l) - PositionOn(d, l - 1) > 0

\* a speed drop of exactly 20 and an unchanged position: no anomaly
C10_Witness ==
    /\ IncidentCall
    /\ Len(ret) = 1
    /\ ret[1].lap = Some(2)
    /\ "VER" \in DOMAIN ret[1].telemetry_analysis
    /\ HasSpeed("VER", 1) /\ HasSpeed("VER", 2)
    /\ SpeedOn("VER", 1) - SpeedOn("VER", 2) = 20
    /\ HasPosition("VER", 1) /\ HasPosition("VER", 2)
    /\ PositionOn("VER", 1) = PositionOn("VER", 2)
    /\ ret[1].telemetry_analysis["VER"].analysis.anomalies = <<>>

----------------------------------------------------------------------------
(* Properties of the message parsers *)

\* the words of phrase stand next to each other somewhere in text
Found(phrase, text) ==
    \E i \in 1..Len(text) :
       /\ i + Len(phrase) - 1 <= Len(text)
       /\ \A k \in 1..Len(phrase) : text[i + k - 1] = phrase[k]

\* the steward phrases in the order they are tested, with their actions
StewardOrder ==
    << << <<"NO", "FURTHER", "ACTION">>, "No further action" >>,
       << <<"UNDER", "INVESTIGATION">>,  "Under investigation" >>,
       << <<"WILL", "BE", "INVESTIGATED">>, "Will be investigated after race" >>,
       << <<"DELETED">>, "Lap time deleted" >>,
       << <<"NOTED">>,   "Noted" >> >>

PhrasesFound(text) ==
    {j \in 1..Len(StewardOrder) : Found(StewardOrder[j][1], text)}

\* C11: the steward action of an incident is that of the first phrase of the
\* list NO FURTHER ACTION, UNDER INVESTIGATION, WILL BE INVESTIGATED, DELETED,
\* NOTED that the message contains, whatever the order of the phrases in the
\* text, and Unknown when it contains none
C11_FirstStewardPhrase ==
    IncidentCall =>
        \A k \in 1..Len(ret) :
           ret[k].steward_action =
              IF PhrasesFound(ret[k].message) = {} THEN "Unknown"
              ELSE StewardOrder[SetMin(PhrasesFound(ret[k].message))][2]

\* a message where NOTED stands before UNDER INVESTIGATION in the text
C11_Witness ==
    /\ IncidentCall
    /\ Len(ret) = 1
    /\ ret[1].message = <<"CAR", "1", "SPIN", "NOTED", "UNDER", "INVESTIGATION">>
    /\ ret[1].steward_action = "Under investigation"

\* the digit strings that follow the word CAR in text, from index i on
RECURSIVE CarNumbersFrom(_, _)
CarNumbersFrom(text, i) ==
    IF i >= Len(text) THEN <<>>
    ELSE (IF text[i] = "CAR" /\ text[i + 1] \in {"1", "4", "44", "99"}
          THEN <<text[i + 1]>> ELSE <<>>) \o CarNumbersFrom(text, i + 1)

\* C12: the participants of an incident are all digit strings that follow
\* 'CAR ' in the message, in order of appearance, duplicates kept; none when
\* the message names no car
C12_ParticipantsInOrder ==
    IncidentCall =>
        \A k \in 1..Len(ret) :
           ret[k].drivers = CarNumbersFrom(ret[k].message, 1)

\* one message naming the same car twice, one naming three cars, the last
\* at the end of the text
C12_Witness ==
    /\ IncidentCall
    /\ Len(ret) = 2
    /\ ret[1].message = <<"CAR", "1", "AND", "CAR", "1", "CONTACT">>
    /\ ret[1].drivers = <<"1", "1">>
    /\ ret[2].drivers = <<"99", "44", "1">>

\* the example of two cars, and a message with the word CAR and no number
C12_WitnessExample ==
    /\ IncidentCall
    /\ Len(ret) = 2
    /\ ret[1].message = CollisionText
    /\ ret[1].drivers = <<"1", "44">>
    /\ ret[2].message = <<"SAFETY", "CAR", "SPIN">>
    /\ ret[2].drivers = <<>>

\* the text has TRACK LIMITS or DELETED, whatever the case of its letters
MentionsTrackLimits(row) ==
    /\ ~IsNone(row.Message)
    /\ \E kw \in { <<"TRACK", "LIMITS">>, <<"DELETED">> } :
          \E i \in 1..Len(Val(row.Message)) :
             /\ i + Len(kw) - 1 <= Len(Val(row.Message))
             /\ \A k \in 1..Len(kw) :
                   UpperToken(Val(row.Message)[i + k - 1]) = kw[k]

ViolationIndices ==
    {i \in 1..Len(MessageTable) : MentionsTrackLimits(MessageTable[i])}

\* the positions in text where word is followed by a token of Class
Places(word, Class, text) ==
    {i \in 1..(Len(text) - 1) : text[i] = word /\ text[i + 1] \in Class}

\* the token after the first such place, None when there is none
FirstAfter(word, Class, text) ==
    IF Places(word, Class, text) = {} THEN None
    ELSE Some(text[Kth(Places(word, Class, text), 1) + 1])

Numbers == {"1", "4", "44", "99"}

\* C13: analyze_track_limits_violations returns one violation per message
\* with TRACK LIMITS or DELETED (case-insensitively), in table order, none
\* for other messages; each carries the first car number after CAR, the
\* value after TIME and the number after TURN (None when absent), and has an
\* empty telemetry analysis when the car number is absent or does not
\* resolve or the lap is missing
C13_ViolationPerMatch ==
    TrackLimitsCall =>
        /\ Len(ret) = Cardinality(ViolationIndices)
        /\ \A k \in 1..Len(ret) :
              LET row  == MessageTable[Kth(ViolationIndices, k)]
                  text == Val(row.Message)
              IN  /\ ret[k].message = text
                  /\ ret[k].driver_number = FirstAfter("CAR", Numbers, text)
                  /\ ret[k].deleted_time =
                        FirstAfter("TIME", Numbers \cup {"1:23.456"}, text)
                  /\ ret[k].turn = FirstAfter("TURN", Numbers, text)
                  /\ ( \/ IsNone(row.Lap)
                       \/ IsNone(FirstAfter("CAR", Numbers, text))
                       \/ \A d \in DriverCodes :
                             ~Resolves(Val(FirstAfter("CAR", Numbers, text)), d) )
                     => /\ DOMAIN ret[k].telemetry_analysis = {}
                        /\ IsNone(row.Lap) => ret[k].lap = None

\* the example message with all three patterns on lap 2, then a message
\* with an unresolvable car, no time and no turn
C13_Witness ==
    /\ TrackLimitsCall
    /\ Len(ret) = 2
    /\ ret[1].driver_number = Some("44")
    /\ ret[1].deleted_time = Some("1:23.456")
    /\ ret[1].turn = Some("4")
    /\ DOMAIN ret[1].telemetry_analysis # {}
    /\ ret[2].message = <<"CAR", "99", "TIME", "DELETED">>
    /\ ret[2].driver_number = Some("99")
    /\ ret[2].deleted_time = None
    /\ ret[2].turn = None
    /\ DOMAIN ret[2].telemetry_analysis = {}

\* a lower-case match without a car and without a lap is retained, and a
\* message without the patterns is skipped
C13_WitnessRetained ==
    /\ TrackLimitsCall
    /\ Len(MessageTable) = 2
    /\ MessageTable[1].Message = Some(<<"TRACK", "CLEAR">>)
    /\ Len(ret) = 1
    /\ ret[1].message = <<"track", "limits", "TURN", "4">>
    /\ ret[1].lap = None
    /\ ret[1].driver_number = None
    /\ ret[1].turn = Some("4")

----------------------------------------------------------------------------
(* Properties of _analyze_violation_telemetry *)

\* the violation has a lap (>= 1) and a car number that resolves to driver
\* d, and its telemetry was analysed
Correlated(violation, d) ==
    /\ ~IsNone(violation.lap)
    /\ Val(violation.lap) >= 1
    /\ violation.driver_abbreviation = Some(d)
    /\ DOMAIN violation.telemetry_analysis # {}

\* C14: for a violation on lap L the correlator appends a speed anomaly iff
\* the driver has a finish-line speed on laps L - 1 and L and the speed
\* dropped by more than 10 from lap L - 1 to lap L
C14_SpeedDropOverTen ==
    TrackLimitsCall =>
        \A k \in 1..Len(ret) : \A d \in DriverCodes :
            Correlated(ret[k], d) =>
                LET l == Val(ret[k].lap) IN
                (ret[k].telemetry_analysis.analysis.anomalies # <<>>) <=>
                    /\ HasSpeed(d, l - 1)
                    /\ HasSpeed(d, l)
                    /\ SpeedOn(d, l - 1) - SpeedOn(d, l) > 10

\* what the code does: the anomaly is appended iff the speed changed by
\* more than 10 in either direction
C14_HoldsForAbsoluteChange ==
    TrackLimitsCall =>
        \A k \in 1..Len(ret) : \A d \in DriverCodes :
            Correlated(ret[k], d) =>
                LET l == Val(ret[k].lap) IN
                (ret[k].telemetry_analysis.analysis.anomalies # <<>>) <=>
                    /\ HasSpeed(d, l - 1)
                    /\ HasSpeed(d, l)
                    /\ Abs(SpeedOn(d, l) - SpeedOn(d, l - 1)) > 10

----------------------------------------------------------------------------
(* Properties of analyze_pit_stop_strategies *)

PitCall == op = "analyze_pit_stop_strategies"

\* the laps of the driver that are flagged pit-in
PitLapsOf(d) ==
    {r.LapNumber : r \in {q \in LapRowSet : q.Driver = d /\ ~IsNone(q.PitInTime)}}

\* the driver's position on lap n, None when the lap or its position is
\* not available
PositionIfAny(d, n) ==
    IF HasPosition(d, n) THEN Some(PositionOn(d, n)) ELSE None

\* the strategies hold one list per driver with a pit-in lap, and each list
\* one record per pit-in lap in increasing lap order with that lap's
\* compound and tyre age, the positions on the adjacent laps and their
\* difference when both are available
PitStopsAsSpecified ==
    /\ {ret[i].driver : i \in 1..Len(ret)}
          = {d \in DriverCodes : PitLapsOf(d) # {}}
    /\ \A i, j \in 1..Len(ret) : ret[i].driver = ret[j].driver => i = j
    /\ \A i \in 1..Len(ret) :
          LET d == ret[i].driver
              stops == ret[i].stops
          IN  /\ Len(stops) = Cardinality(PitLapsOf(d))
              /\ \A k \in 1..Len(stops) :
                    LET n == Kth(PitLapsOf(d), k)
                        before == PositionIfAny(d, n - 1)
                        after  == PositionIfAny(d, n + 1)
                    IN  /\ stops[k].lap = n
                        /\ stops[k].compound = LapOfDriver(d, n).Compound
                        /\ stops[k].tyre_life = LapOfDriver(d, n).TyreLife
                        /\ stops[k].position_before = before
                        /\ stops[k].position_after = after
                        /\ stops[k].position_change =
                              IF ~IsNone(before) /\ ~IsNone(after)
                              THEN Some(Val(after) - Val(before)) ELSE None

\* the laps the driver has a record of
LapsOf(d) == {r.LapNumber : r \in {q \in LapRowSet : q.Driver = d}}

\* every pit-in lap has a record of the lap before it (unless it is lap 1)
\* and of the lap after it (unless it is the driver's last lap)
AdjacentLapsRecorded ==
    \A d \in DriverCodes : \A n \in PitLapsOf(d) :
       /\ n > 1 => (n - 1) \in LapsOf(d)
       /\ (\E m \in LapsOf(d) : m > n) => (n + 1) \in LapsOf(d)

\* C15: analyze_pit_stop_strategies returns, for every driver with a pit-in
\* lap, one record per such lap in increasing lap order, with the compound
\* and tyre age of the lap, the positions on lap - 1 and lap + 1 where those
\* exist, and position_change = after - before exactly when both positions
\* are available (None otherwise); drivers without a pit-in lap have no
\* entry.  Stated for the lap tables where the laps next to every pit-in lap
\* are recorded.
C15_PitStopRecords ==
    (PitCall /\ AdjacentLapsRecorded) => (raised = "" /\ PitStopsAsSpecified)

\* whenever the scan returns, it returns the records as specified
C15_HoldsWhenReturning ==
    (PitCall /\ raised = "") => PitStopsAsSpecified

\* the scanners that look up laps of a driver
LapScannerCall ==
    op \in {"analyze_incidents", "analyze_track_limits_violations",
            "analyze_position_changes", "analyze_pit_stop_strategies"}

PositionsRecorded == \A r \in LapRowSet : ~IsNone(r.Position)

\* C16: no scanner raises because a lap it refers to is missing from the
\* driver's lap records: analyze_incidents, analyze_track_limits_violations,
\* analyze_position_changes and analyze_pit_stop_strategies complete on
\* every lap table, also one with a gap next to an incident lap, a violation
\* lap or a pit-in lap.  Stated for the lap tables whose rows all have a
\* position.
C16_MissingLapNeverRaises ==
    (LapScannerCall /\ PositionsRecorded) => raised = ""

\* on those tables the pit-stop scan raises exactly when a lap next to a
\* pit-in lap is missing, and then an IndexError
C16_RaisesExactlyOnGap ==
    (PitCall /\ PositionsRecorded) =>
        /\ raised \in {"", "IndexError"}
        /\ raised = "IndexError" <=> ~AdjacentLapsRecorded

----------------------------------------------------------------------------
(* Properties of _compare_lap_telemetry *)

\* the driver's row that precedes lap n in lap order
PrevRowOf(d, n) ==
    LapOfDriver(d, Kth({m \in LapsOf(d) : m < n},
                      Cardinality({m \in LapsOf(d) : m < n})))

\* the cell holds a duration
IsDuration(cell) == ~IsNone(cell) /\ Val(cell) \in DOMAIN DurationMs

\* the difference of two durations, in milliseconds
DurationDelta(prev, curr) == DurationMs[Val(curr)] - DurationMs[Val(prev)]

SpeedFieldNames == {"SpeedI1", "SpeedI2", "SpeedFL", "SpeedST"}
SectorFieldNames == {"Sector1Time", "Sector2Time", "Sector3Time"}

\* C17: the telemetry comparison of a reported position change has an
\* anomaly for the lap time iff |lap-time delta| > 2.0 s, one for each of
\* the four speed fields whose |delta| > 15 km/h, one for each of the three
\* sector times whose |delta| > 0.5 s, and no other entry
C17_ComparisonAnomalies ==
    PositionCall =>
        \A i \in 1..Len(ret) :
            LET prev == PrevRowOf(ret[i].driver, ret[i].lap)
                curr == LapOfDriver(ret[i].driver, ret[i].lap)
                anomalies == ret[i].telemetry_comparison.anomalies
                kinds == Kinds(anomalies)
            IN  /\ "LapTime" \in kinds <=>
                      /\ IsDuration(prev.LapTime) /\ IsDuration(curr.LapTime)
                      /\ Abs(DurationDelta(prev.LapTime, curr.LapTime)) > 2000
                /\ \A f \in SpeedFieldNames :
                      f \in kinds <=>
                         /\ ~IsNone(prev[f]) /\ ~IsNone(curr[f])
                         /\ Abs(Val(curr[f]) - Val(prev[f])) > 15
                /\ \A f \in SectorFieldNames :
                      f \in kinds <=>
                         /\ IsDuration(prev[f]) /\ IsDuration(curr[f])
                         /\ Abs(DurationDelta(prev[f], curr[f])) > 500
                /\ kinds \subseteq {"LapTime"} \cup SpeedFieldNames
                                              \cup SectorFieldNames
                /\ Len(anomalies) = Cardinality(kinds)

\* deltas exactly at the thresholds (2.0 s, 15 km/h, 0.5 s): no anomaly
C17_Witness ==
    /\ PositionCall
    /\ Len(ret) = 1
    /\ ret[1].telemetry_comparison.lap_time_change
          = [text |-> "seconds", ms |-> 2000]
    /\ "SpeedI1" \in DOMAIN ret[1].telemetry_comparison.speed_changes
    /\ ret[1].telemetry_comparison.speed_changes["SpeedI1"] = 15
    /\ "Sector1Time" \in DOMAIN ret[1].telemetry_comparison.sector_changes
    /\ ret[1].telemetry_comparison.sector_changes["Sector1Time"] = 500
    /\ ret[1].telemetry_comparison.anomalies = <<>>

\* every field beyond its threshold: eight anomalies
C17_WitnessAll ==
    /\ PositionCall
    /\ Len(ret) = 1
    /\ Len(ret[1].telemetry_comparison.anomalies) = 8

\* the (driver, lap) pairs whose step from the preceding lap is a position
\* change of at least arg
ReportablePairs ==
    {x \in DriverCodes \X (1..4) :
        /\ x[2] \in LapsOf(x[1])
        /\ \E m \in LapsOf(x[1]) : m < x[2]
        /\ ~IsNone(PrevRowOf(x[1], x[2]).Position)
        /\ ~IsNone(LapOfDriver(x[1], x[2]).Position)
        /\ Abs(Val(PrevRowOf(x[1], x[2]).Position)
               - Val(LapOfDriver(x[1], x[2]).Position)) >= arg
        /\ Val(PrevRowOf(x[1], x[2]).Position)
              # Val(LapOfDriver(x[1], x[2]).Position)}

\* the record's comparison leaves out exactly the time fields that are
\* missing or no duration on either lap, and computes all others
LeavesOutUnparsed(record) ==
    LET prev == PrevRowOf(record.driver, record.lap)
        curr == LapOfDriver(record.driver, record.lap)
        comparison == record.telemetry_comparison
    IN  /\ IF IsDuration(prev.LapTime) /\ IsDuration(curr.LapTime)
           THEN comparison.lap_time_change =
                    [text |-> "seconds",
                     ms   |-> DurationDelta(prev.LapTime, curr.LapTime)]
           ELSE /\ comparison.lap_time_change.text = "N/A"
                /\ "LapTime" \notin Kinds(comparison.anomalies)
        /\ DOMAIN comparison.sector_changes
              = {f \in SectorFieldNames : IsDuration(prev[f]) /\ IsDuration(curr[f])}
        /\ \A f \in DOMAIN comparison.sector_changes :
              comparison.sector_changes[f] = DurationDelta(prev[f], curr[f])
        /\ DOMAIN comparison.speed_changes
              = {f \in SpeedFieldNames : ~IsNone(prev[f]) /\ ~IsNone(curr[f])}
        /\ \A f \in DOMAIN comparison.speed_changes :
              comparison.speed_changes[f] = Val(curr[f]) - Val(prev[f])

\* C18: when the lap time or a sector time of either lap is missing or is no
\* duration, the comparison leaves only that field out (no delta and no
\* anomaly for it) and still computes every other field, and the position
\* change is still reported
C18_UnparsedFieldLeftOut ==
    PositionCall =>
        /\ Len(ret) = Cardinality(ReportablePairs)
        /\ \A i \in 1..Len(ret) : LeavesOutUnparsed(ret[i])

\* the lap time of both laps is a string
LapTimesWritten(record) ==
    /\ ~IsNone(PrevRowOf(record.driver, record.lap).LapTime)
    /\ ~IsNone(LapOfDriver(record.driver, record.lap).LapTime)

\* what the code does: the field is left out when no lap time is missing, and a
\* missing lap time puts the delta of a nan, '+nans', into lap_time_change
C18_HoldsForWrittenLapTimes ==
    PositionCall =>
        /\ Len(ret) = Cardinality(ReportablePairs)
        /\ \A i \in 1..Len(ret) :
              IF LapTimesWritten(ret[i]) THEN LeavesOutUnparsed(ret[i])
              ELSE \/ ret[i].telemetry_comparison.lap_time_change.text = "+nans"
                   \/ ret[i].telemetry_comparison.lap_time_change.text = "N/A"

----------------------------------------------------------------------------
(* Properties of the channel-data fetch *)

\* the anomalies of driver d around lap l, from the lap table alone
LapLevelAnomalies(d, l) ==
    (IF /\ HasSpeed(d, l - 1) /\ HasSpeed(d, l)
        /\ SpeedOn(d, l - 1) - SpeedOn(d, l) > 20
     THEN << [kind |-> "speed_drop", amount |-> SpeedOn(d, l - 1) - SpeedOn(d, l)] >>
     ELSE <<>>)
    \o
    (IF /\ HasPosition(d, l - 1) /\ HasPosition(d, l)
        /\ PositionOn(d, l) - PositionOn(d, l - 1) > 0
     THEN << [kind |-> "position_drop",
              amount |-> PositionOn(d, l) - PositionOn(d, l - 1)] >>
     ELSE <<>>)

\* the entry of driver d for an incident on lap l has every lap of the
\* window with its lap-level fields, the channel statistics exactly on the
\* laps whose fetch succeeds, and the anomalies of the lap table
LapLevelEntry(entry, d, l) ==
    /\ DOMAIN entry.lap_data = ExpectedLaps(d, l, 2)
    /\ \A n \in DOMAIN entry.lap_data :
          /\ entry.lap_data[n].lap_number = n
          /\ entry.lap_data[n].position = LapOfDriver(d, n).Position
          /\ entry.lap_data[n].speed_fl = LapOfDriver(d, n).SpeedFL
          /\ ~IsNone(entry.lap_data[n].car_telemetry) <=> <<d, n>> \in fastf1
    /\ entry.analysis.anomalies = LapLevelAnomalies(d, l)

\* C19: whichever fetches fail, analyze_incidents returns one incident per
\* matching message, each with an entry for every resolved participant that
\* has laps in the window; the entry holds every lap of the window with its
\* lap-level fields and the anomalies of the lap table, and only the channel
\* statistics of the laps whose fetch failed are absent
C19_FetchFailureKeepsIncidents ==
    IncidentCall =>
        /\ raised = ""
        /\ Len(ret) = Cardinality(IncidentIndices)
        /\ \A k \in 1..Len(ret) :
              LET row == MessageTable[Kth(IncidentIndices, k)]
              IN  /\ ret[k].message = Val(row.Message)
                  /\ ret[k].lap = row.Lap
                  /\ DOMAIN ret[k].telemetry_analysis =
                        {d \in ResolvedDrivers(ret[k]) :
                            ExpectedLaps(d, Val(row.Lap), 2) # {}}
                  /\ \A d \in DOMAIN ret[k].telemetry_analysis :
                        LapLevelEntry(ret[k].telemetry_analysis[d], d, Val(row.Lap))

\* the fetch fails on laps 1 and 3 of VER and succeeds on lap 2: the first
\* incident has all three laps, the statistics on lap 2 only, and the second
\* incident is reported with its own entry
C19_Witness ==
    /\ IncidentCall
    /\ Len(ret) = 2
    /\ fastf1 = {<<"VER", 2>>}
    /\ "VER" \in DOMAIN ret[1].telemetry_analysis
    /\ DOMAIN ret[1].telemetry_analysis["VER"].lap_data = {1, 2, 3}
    /\ IsNone(ret[1].telemetry_analysis["VER"].lap_data[1].car_telemetry)
    /\ ~IsNone(ret[1].telemetry_analysis["VER"].lap_data[2].car_telemetry)
    /\ IsNone(ret[1].telemetry_analysis["VER"].lap_data[3].car_telemetry)
    /\ ret[1].telemetry_analysis["VER"].analysis.anomalies # <<>>
    /\ "HAM" \in DOMAIN ret[2].telemetry_analysis
    /\ IsNone(ret[2].telemetry_analysis["HAM"].lap_data[2].car_telemetry)

----------------------------------------------------------------------------
(* Properties of repeated calls *)

ScannerNames ==
    {"analyze_incidents", "analyze_position_changes",
     "analyze_track_limits_violations", "analyze_yellow_flags",
     "analyze_pit_stop_strategies", "identify_commentary_segments",
     "analyze_race_overview", "analyze_weather_impact", "_generate_statistics"}

FetchingNames == {"analyze_incidents", "generate_comprehensive_analysis"}

\* the same scanner, or the full analysis, is called again with the same
\* argument; no call in between, so the tables are the same
CalledAgain ==
    /\ op \in ScannerNames \cup {"generate_comprehensive_analysis"}
    /\ op' = op
    /\ arg' = arg

\* C20: calling generate_comprehensive_analysis twice in a row on the same
\* tables yields two equal reports, and calling any scanner twice in a row
\* yields two equal results
C20_SecondRunEqual ==
    [][CalledAgain => (ret' = ret /\ raised' = raised)]_vars

ReportKeys ==
    {"race_overview", "incidents", "major_position_changes",
     "pit_stop_strategies", "track_limits_violations", "yellow_flags",
     "weather_conditions", "commentary_segments", "statistics"}

\* what the code does: the second call ends as the first did; its result is
\* equal when the channel fetches of the two calls have the same outcomes,
\* and apart from the incidents' channel data in any case
C20_HoldsForEqualFetches ==
    [][CalledAgain =>
          /\ raised' = raised
          /\ (op \notin FetchingNames \/ fastf1' = fastf1) => ret' = ret
          /\ (op = "generate_comprehensive_analysis" /\ raised = "") =>
                /\ DOMAIN ret'[1] = ReportKeys
                /\ \A k \in ReportKeys \ {"incidents"} : ret'[1][k] = ret[1][k]
                /\ analysis_results' = ret'[1]]_vars

----------------------------------------------------------------------------
(* Frame of the analysis operations *)

\* C21: a call of one of the nine analysis operations leaves every loaded
\* table and analysis_results as they were, whether it returns or raises;
\* analysis_results changes only in a call of
\* generate_comprehensive_analysis, which leaves the tables alone as well
C21_ScannersReadOnly ==
    [][/\ op' \in ScannerNames =>
             (tables' = tables /\ analysis_results' = analysis_results)
       /\ analysis_results' # analysis_results =>
             (op' = "generate_comprehensive_analysis" /\ tables' = tables)]_vars

\* a report has been generated and a scanner called after it returned its
\* result: the report is still the one analysis_results holds
C21_Witness ==
    /\ op = "analyze_race_overview"
    /\ raised = ""
    /\ ret # <<>>
    /\ analysis_results # EmptyDict
    /\ DOMAIN analysis_results = ReportKeys
    /\ analysis_results.race_overview = ret[1]
    /\ analysis_results.incidents # <<>>

----------------------------------------------------------------------------
(* Properties of the report *)

ReportCall == op = "generate_comprehensive_analysis" /\ raised = ""

\* the number of pit-stop records over all drivers
PitStopCount(strategies) ==
    SumOf([i \in 1..Len(strategies) |-> Len(strategies[i].stops)])

StatisticsKeys ==
    {"total_position_changes", "significant_changes_3plus",
     "major_changes_5plus", "total_incidents", "track_limits_violations",
     "yellow_flag_periods", "total_pit_stops"}

\* the statistics of a report are the lengths of the report's own lists
CountsMatchLists(report) ==
    LET st == report.statistics
    IN  /\ DOMAIN st = StatisticsKeys
        /\ st.total_incidents = Len(report.incidents)
        /\ st.track_limits_violations = Len(report.track_limits_violations)
        /\ st.yellow_flag_periods = Len(report.yellow_flags)
        /\ st.significant_changes_3plus = Len(report.major_position_changes)
        /\ st.total_pit_stops = PitStopCount(report.pit_stop_strategies)
        /\ st.major_changes_5plus <= st.significant_changes_3plus
        /\ st.significant_changes_3plus <= st.total_position_changes

\* the report of an analyzer without lap data: no statistics and no entries
ReportWithoutLaps(report) ==
    /\ report.statistics = EmptyDict
    /\ report.race_overview = EmptyDict
    /\ report.incidents = <<>>
    /\ report.major_position_changes = <<>>
    /\ report.pit_stop_strategies = <<>>
    /\ report.track_limits_violations = <<>>
    /\ report.yellow_flags = <<>>

\* C23 as stated: in every report of generate_comprehensive_analysis the
\* statistics are the lengths of the report's own lists (incidents,
\* track-limits violations, yellow flags, major position changes, pit-stop
\* records) and major_changes_5plus <= significant_changes_3plus <=
\* total_position_changes
C23_EveryReportHasCounts ==
    ReportCall => (analysis_results = ret[1] /\ CountsMatchLists(ret[1]))

\* C23: in every report generated with lap data loaded the statistics are
\* the lengths of the report's own lists (incidents, track-limits
\* violations, yellow flags, major position changes of 3 or more, pit-stop
\* records over all drivers) and major_changes_5plus <=
\* significant_changes_3plus <= total_position_changes; a report generated
\* without lap data has empty statistics and empty lists
C23_StatisticsMatchLists ==
    ReportCall =>
        /\ analysis_results = ret[1]
        /\ IF IsNone(lap_data) THEN ReportWithoutLaps(ret[1])
                               ELSE CountsMatchLists(ret[1])

\* a report with position changes of 5, 3 and 2, one of each message
\* category and one pit stop
C23_Witness ==
    /\ ReportCall
    /\ ~IsNone(lap_data)
    /\ ret[1].statistics.total_position_changes = 3
    /\ ret[1].statistics.significant_changes_3plus = 2
    /\ ret[1].statistics.major_changes_5plus = 1
    /\ Len(ret[1].major_position_changes) = 2
    /\ ret[1].statistics.total_incidents = 1
    /\ ret[1].statistics.track_limits_violations = 1
    /\ ret[1].statistics.yellow_flag_periods = 1
    /\ ret[1].statistics.total_pit_stops = 1

----------------------------------------------------------------------------
(* Properties of the runs *)

RunNames == {"main", "handle_analyze"}

\* C22: when no directory matches the race name or one of the six files
\* cannot be read, load_race_data returns False, and a run of main or of
\* handle_analyze then ends with status 1, with no analysis made (no report
\* kept, no channel fetched) and no report file written
C22_FailedLoadEndsRun ==
    [][/\ \A race_name \in RaceNames :
             (LoadRaceData(race_name) /\ ~LoadSucceeds(race_name)) => ~loaded'
       /\ (op' \in RunNames /\ ~LoadSucceeds(arg')) =>
             /\ ~loaded'
             /\ ret' = <<1>>
             /\ analysis_results' = EmptyDict
             /\ fastf1' = {}
             /\ files' = files]_vars

\* a run of main that stopped at a file missing after lap_data.csv, while
\* the files of an earlier run are in the output directory
C22_Witness ==
    /\ op = "main"
    /\ ~loaded
    /\ ~IsNone(FindCsvDir(arg))
    /\ ~IsNone(lap_data)
    /\ IsNone(session_status)
    /\ ret = <<1>>
    /\ analysis_results = EmptyDict
    /\ files = {[dir |-> OutputDir, kind |-> "json"]}

\* the six tables are the six files of one directory of the data directory
TablesOf(dir) == [i \in 1..Len(CsvFiles) |-> dir[CsvFiles[i]]]

HeldTables ==
    <<lap_data, race_control, track_status, session_results, weather_data,
      session_status>>

FromOneDirectory ==
    \E d \in 1..Len(disk) :
       /\ ReadCount(disk[d]) = Len(CsvFiles)
       /\ HeldTables = TablesOf(disk[d])

NothingHeld == \A i \in 1..Len(CsvFiles) : IsNone(HeldTables[i])

\* C30: after any sequence of load_race_data calls the tables the analyzer
\* holds are all unset or all the files of one race directory: a load that
\* fails part-way leaves no mix of its tables with earlier or unset ones
C30_TablesFromOneDirectory ==
    op = "load_race_data" => (NothingHeld \/ FromOneDirectory)

\* what does hold: after a load that returned True the six tables are the
\* six files of one directory
C30_HoldsAfterSuccessfulLoad ==
    (op = "load_race_data" /\ loaded) => FromOneDirectory

----------------------------------------------------------------------------
(* Properties of the settings *)

\* C24: one Settings object is ever constructed, by the first call; every
\* get_settings returns it and leaves its values as they are; after an
\* update_settings that returned, each key it was given reads as the value
\* it was given
C24_SettingsSingleton ==
    [][/\ instances' = 1
       /\ Val(settings').id = 1
       /\ op' = "get_settings" =>
             /\ ret' = <<1>>
             /\ ~IsNone(settings) => settings' = settings
       /\ (op' = "update_settings" /\ raised' = "") =>
             \A i \in 1..Len(arg') :
                Val(settings').values[arg'[i][1]] = arg'[i][2]]_vars

\* get_settings after both settings were changed
C24_Witness ==
    /\ op = "get_settings"
    /\ ret = <<1>>
    /\ instances = 1
    /\ Val(settings).values =
           [log_level |-> "DEBUG", min_position_change |-> 5, default_fps |-> 30]

----------------------------------------------------------------------------
(* Properties of clean_dataframe *)

RowLabels(df) == {df.rows[i].label : i \in 1..Len(df.rows)}

\* the rows and the columns of df that hold a value that is not missing
RowsWithValue(df) ==
    {df.rows[i].label : i \in {j \in 1..Len(df.rows) :
        \E c \in ColumnSet(df) : ~IsNone(df.rows[j].cells[c])}}

ColumnsWithValue(df) ==
    {c \in ColumnSet(df) : \E i \in 1..Len(df.rows) : ~IsNone(df.rows[i].cells[c])}

Cleaned == op = "clean_dataframe"

\* C25: clean_dataframe returns exactly the rows and the columns of its
\* input that hold at least one value that is not missing, and a second
\* application to the returned frame removes no row and no column (that the
\* input is left as it was is the frame of the two calls, which work on a
\* copy)
C25_KeepsExactlyNonEmpty ==
    Cleaned =>
        /\ RowLabels(ret[1]) = RowsWithValue(arg.df)
        /\ ColumnSet(ret[1]) = ColumnsWithValue(arg.df)
        /\ arg.calls = 2 =>
              /\ RowLabels(ret[1]) = RowLabels(arg.df)
              /\ ColumnSet(ret[1]) = ColumnSet(arg.df)

\* what does hold: for an input with at least one row and one column, under
\* a pandas that rejects errors='ignore' (no conversion takes place), the
\* frame returned has exactly the rows and columns with a value, and a
\* second application removes nothing
C25_HoldsWithoutConversion ==
    (Cleaned /\ ~arg.ignore_accepted /\ ~FrameEmpty(arg.df)) =>
        /\ RowLabels(ret[1]) = RowsWithValue(arg.df)
        /\ ColumnSet(ret[1]) = ColumnsWithValue(arg.df)
        /\ arg.calls = 2 =>
              /\ RowLabels(ret[1]) = RowLabels(arg.df)
              /\ ColumnSet(ret[1]) = ColumnSet(arg.df)

\* the first application keeps exactly the rows and columns with a value
\* whenever the input has at least one row and one column, with or without
\* the conversions
C25_HoldsForFirstCall ==
    (Cleaned /\ arg.calls = 1 /\ ~FrameEmpty(arg.df)) =>
        /\ RowLabels(ret[1]) = RowsWithValue(arg.df)
        /\ ColumnSet(ret[1]) = ColumnsWithValue(arg.df)

\* the second application removes a row: the frame returned by the first
\* holds a row whose only value, the string NaT, was read as a missing time
C25_SecondCallRemovesRow ==
    /\ Cleaned
    /\ arg.calls = 2
    /\ arg.ignore_accepted
    /\ RowLabels(ret[1]) # RowLabels(arg.df)

\* the columns of a frame without rows are returned though they hold no value
C25_EmptyFrameKeepsColumns ==
    /\ Cleaned
    /\ arg.calls = 1
    /\ Len(arg.df.rows) = 0
    /\ ColumnSet(ret[1]) # {}

----------------------------------------------------------------------------
(* Properties of validate_race_data *)

RequiredKeys == {required_keys[i] : i \in 1..Len(required_keys)}

Validated == op = "validate_race_data"

\* C26: the error list is empty exactly when the three required keys are
\* present and neither the session-results nor the lap-data table is empty;
\* it holds one error per missing required key and one per empty table, and
\* nothing else: a missing event name or date, fewer than 10 result rows and
\* a largest lap number below 10 or above 100 add warnings only
C26_ErrorsExactlyForMissingOrEmpty ==
    Validated =>
        LET errors   == ret[1].errors
            warnings == ret[1].warnings
            absent   == RequiredKeys \ DOMAIN arg
            empty    == {key \in {"session_results", "lap_data"} : EmptyFrame(arg, key)}
        IN  /\ errors = <<>> <=> (absent = {} /\ empty = {})
            /\ \A key \in RequiredKeys :
                   Len(SelectSeq(errors, LAMBDA e : e = <<"Missing required data", key>>))
                       = IF key \in absent THEN 1 ELSE 0
            /\ Len(errors) = Cardinality(absent) + Cardinality(empty)
            /\ Len(warnings) =
                   (IF "event_info" \in DOMAIN arg /\ Missing(arg.event_info, "event_name")
                    THEN 1 ELSE 0)
                   + (IF "event_info" \in DOMAIN arg /\ Missing(arg.event_info, "date")
                      THEN 1 ELSE 0)
                   + Len(ResultWarnings(arg)) + Len(LapWarnings(arg))

\* a dict without errors and with the four kinds of warning
C26_Witness ==
    /\ Validated
    /\ ret[1].errors = <<>>
    /\ ret[1].warnings =
           << <<"Event name is missing">>, <<"Event date is missing">>,
              <<"Only drivers in results", 9>>,
              <<"Unusually high lap count", 101>> >>

----------------------------------------------------------------------------
(* Properties of _call_groq_api *)

ApiCalled == op = "_call_groq_api"

RequestError(outcome) == outcome.kind \in RequestExceptions

\* C27: _call_groq_api(prompt, max_retries = k) makes at most k attempts;
\* when an attempt answers with text after request errors only, that text
\* is returned and that attempt is the last; None is returned exactly when
\* all k attempts fail with a request error (at once for k = 0); the sleeps
\* are 2^i seconds after failed attempt i, for each failed attempt that is
\* followed by another one and for no other
C27_RetriesBounded ==
    ApiCalled =>
        LET k        == arg.max_retries
            outcomes == arg.outcomes
            call     == ret[1]
        IN  /\ call.attempts <= k
            /\ \A j \in 1..k :
                   (/\ outcomes[j].kind = "text"
                    /\ \A i \in 1..(j - 1) : RequestError(outcomes[i]))
                   => /\ call.value = Some(outcomes[j].text)
                      /\ call.attempts = j
                      /\ raised = ""
            /\ (raised = "" /\ IsNone(call.value))
                   <=> \A i \in 1..k : RequestError(outcomes[i])
            /\ k = 0 => call.attempts = 0
            /\ call.sleeps =
                   [i \in 1..(IF call.attempts = 0 THEN 0 ELSE call.attempts - 1)
                       |-> 2 ^ (i - 1)]

\* three attempts allowed, all failing: None after sleeps of 1 and 2 seconds
C27_Witness ==
    /\ ApiCalled
    /\ arg.max_retries = 3
    /\ raised = ""
    /\ ret[1] = [value |-> None, attempts |-> 3, sleeps |-> <<1, 2>>]

----------------------------------------------------------------------------
(* Properties of handle_pipeline *)

Piped == op = "handle_pipeline"

StepOrder == <<"collect", "analyze", "comment">>

Skipped(args, step) ==
    CASE step = "collect" -> args.skip_collect
      [] step = "analyze" -> args.skip_analyze
      [] step = "comment" -> args.skip_comment

Ran(step) == \E i \in 1..Len(ret[1].ran) : ret[1].ran[i] = step

\* the steps run are in the fixed order; a step that ran was not skipped
\* and every step that ran before it returned 0; the value returned is 1
\* exactly when a step that ran returned non-zero, and that step is the last
\* one run; the comment step does not run and the warning is printed when
\* the step is reached and there is no analysis file, which fails nothing
StepsAsSpecified ==
    LET ran == ret[1].ran
    IN  /\ \E keep \in SUBSET (1..Len(StepOrder)) :
               ran = SelectSeq(StepOrder, LAMBDA s :
                         \E i \in keep : StepOrder[i] = s)
        /\ \A i \in 1..Len(ran) :
               /\ ~Skipped(arg, ran[i])
               /\ \A j \in 1..(i - 1) : arg.codes[ran[j]] = 0
        /\ ret[1].code = 1 <=> \E i \in 1..Len(ran) : arg.codes[ran[i]] # 0
        /\ ret[1].code \in {0, 1}
        /\ \A i \in 1..Len(ran) : arg.codes[ran[i]] # 0 => i = Len(ran)
        /\ \A s \in {"collect", "analyze"} :
               (~Skipped(arg, s) /\ ~Ran(s)) => ret[1].code = 1
        /\ (~Skipped(arg, "comment") /\ ~Ran("comment") /\ ret[1].code = 0)
               => (ret[1].warned /\ ~HasAnalysisFile(files))
        /\ ret[1].warned => (~Ran("comment") /\ ~HasAnalysisFile(files))

\* C28 as stated, for every call of handle_pipeline
C28_StepsInOrder == Piped => StepsAsSpecified

\* C28: a call of handle_pipeline with --race or --event runs the steps
\* collect, analyze, comment in that order, a step only when it is not
\* skipped and the steps run before it returned 0; it returns 1 as soon as a
\* step returns non-zero, running no later step, and 0 otherwise; without
\* an analysis file the comment step is left out with a warning and fails
\* nothing. A call with neither option returns 1 and runs no step
C28_StepsInOrderWhenIdentified ==
    Piped =>
        IF IsNone(RaceIdentifier(arg))
        THEN ret[1] = [code |-> 1, ran |-> <<>>, warned |-> FALSE]
        ELSE StepsAsSpecified

\* collect returned 0, analyze was skipped and no analysis file exists: the
\* warning is printed and the pipeline returns 0
C28_Witness ==
    /\ Piped
    /\ ~IsNone(RaceIdentifier(arg))
    /\ arg.skip_analyze
    /\ ret[1] = [code |-> 0, ran |-> <<"collect">>, warned |-> TRUE]

\* analyze returned 1 after collect returned 0: comment does not run
C28_StopsAtFailure ==
    /\ Piped
    /\ ret[1].code = 1
    /\ ret[1].ran = <<"collect", "analyze">>
    /\ ~arg.skip_comment

----------------------------------------------------------------------------
(* Properties of process_race_data *)

Processed == op = "process_race_data" /\ raised = ""

TypeOrder ==
    <<"incident", "position_change", "track_limits", "collision", "race_summary">>

Rank(type) == CHOOSE i \in 1..Len(TypeOrder) : TypeOrder[i] = type

\* the candidates of a type: the first items of its list
Candidates(race_data, type) ==
    CASE type = "incident" ->
             FirstOf(ListOf(race_data, "incidents"), 3)
      [] type = "position_change" ->
             FirstOf(ListOf(race_data, "major_position_changes"), 3)
      [] type = "track_limits" ->
             FirstOf(ListOf(race_data, "track_limits_violations"), 2)
      [] type = "collision" ->
             FirstOf(Collisions(ListOf(race_data, "incidents")), 1)
      [] type = "race_summary" -> <<race_data>>

\* the number of the API call for candidate i of a type
CallOf(race_data, type, i) ==
    SumOf([r \in 1..(Rank(type) - 1) |-> Len(Candidates(race_data, TypeOrder[r]))]) + i

\* the entries of a type in the list returned, in order
EntriesOf(type) == SelectSeq(ret, LAMBDA e : e.type = type)

\* C29: process_race_data returns, in the order incidents (first 3),
\* position changes (first 3), track-limits violations (first 2),
\* collisions (first 1), race summary, exactly the items whose API call
\* gave text, each with that text; an item whose call returned None is left
\* out and the later items are still processed; at most 10 entries
C29_CommentariesInOrder ==
    Processed =>
        /\ Len(ret) <= 10
        /\ \A i \in 1..Len(ret) : \A j \in (i + 1)..Len(ret) :
               Rank(ret[i].type) <= Rank(ret[j].type)
        /\ \A r \in 1..Len(TypeOrder) :
               LET type       == TypeOrder[r]
                   candidates == Candidates(arg.race_data, type)
                   answered   == SelectSeq([i \in 1..Len(candidates) |-> i],
                                     LAMBDA i : HasText(arg.answers[CallOf(arg.race_data, type, i)]))
               IN  EntriesOf(type) =
                       [k \in 1..Len(answered) |->
                           [type |-> type, item |-> candidates[answered[k]],
                            commentary |->
                                Val(arg.answers[CallOf(arg.race_data, type, answered[k])].value)]]

\* four incidents with a collision, four position changes, three
\* violations; the second call and the summary call returned None: eight
\* entries, the collision among them
C29_Witness ==
    /\ Processed
    /\ Len(ListOf(arg.race_data, "incidents")) = 4
    /\ Len(ListOf(arg.race_data, "major_position_changes")) = 4
    /\ Len(ListOf(arg.race_data, "track_limits_violations")) = 3
    /\ arg.answers[2] = ReturnedNone
    /\ arg.answers[10] = ReturnedNone
    /\ Len(ret) = 8
    /\ ret[8].type = "collision"
    /\ ret[2].item = Incident(<<"CAR", "44", "SPIN">>, 3)

====
